---- MODULE Spec2Model ----
(***************************************************************************)
(* Bridge AI voice-command relay (src/bridge_ai/bridge_ai.py).             *)
(*                                                                         *)
(* One voice-command cycle is capture -> transcribe -> parse -> validate   *)
(* -> send -> memory update, run to completion inside BridgeAI.run's       *)
(* loop.  The external collaborators (microphone, whisper, the LLM, the    *)
(* TCP peer) are inputs: every outcome they can produce is a choice of the *)
(* action that consumes it.                                                *)
(*                                                                         *)
(* Python values are tagged records: None, Num(n), Str(s).  Warp factors   *)
(* are kept in tenths (9.9 is Num(99), 10 is Num(100)); impulse levels in  *)
(* whole percent.                                                          *)
(***************************************************************************)
EXTENDS Integers, FiniteSets, Sequences, TLC

VARIABLES
    pc,           \* position of the control thread in run / process_voice_command
    running,      \* BridgeAI.running
    memory,       \* CommandMemory: the five conversational-memory fields
    command,      \* the BridgeCommand of the current cycle, or None
    source,       \* which path of IntentParser.parse produced command
    valid,        \* what command.is_valid() gave in this cycle
    connected,    \* GodotClient.connected
    sendResult,   \* what godot.send_command(command) gave in this cycle
    sendTrace,    \* what the last send_command call did: connect attempt, write, cause
    outcome,      \* how the last cycle ended ("none" while one is in progress)
    env,          \* what the process finds at startup: libraries, binary, API key
    pa,           \* AudioRecorder.pa, the PyAudio instance
    socket,       \* GodotClient.socket
    text,         \* the string in hand: a transcript, an LLM reply, a destination
    response,     \* what the LLM call of the current parse gave
    json_data,    \* what _extract_json returned
    llm_calls,    \* generate_content calls made by the current parse
    parse_exit,   \* the return statement the current parse left by
    context,      \* the memory context the current parse put into the LLM prompt
    canonical     \* the destination name each parse path gives for text

\* the variables of the parser's unit specifications
parser_vars == <<text, response, json_data, llm_calls, parse_exit, context,
                 canonical>>

vars == <<pc, running, memory, command, source, valid, connected,
          sendResult, sendTrace, outcome, env, pa, socket, parser_vars>>

----------------------------------------------------------------------------
(* Python values *)

None == [kind |-> "None"]
Num(n) == [kind |-> "num", val |-> n]
Str(s) == [kind |-> "str", val |-> s]

----------------------------------------------------------------------------
(* Python strings, over ASCII: the utterances and replies of the model are   *)
(* ASCII text, on which str.lower, str.capitalize and the classes of re      *)
(* depend on nothing but the letter tables below.                            *)

LowerCase == "abcdefghijklmnopqrstuvwxyz"
UpperCase == "ABCDEFGHIJKLMNOPQRSTUVWXYZ"
DecimalDigits == "0123456789"
Whitespace == {" ", "\t", "\n", "\r"}

\* s[i-1:i] in Python terms: the one-character string at position i of s, ""
\* outside s
CharAt(s, i) == IF i >= 1 /\ i <= Len(s) THEN SubSeq(s, i, i) ELSE ""

\* a.find(c) + 1 for a one-character c: its position in a, 0 when absent
IndexOf(a, c) ==
    IF \E i \in 1..Len(a) : CharAt(a, i) = c
    THEN CHOOSE i \in 1..Len(a) : CharAt(a, i) = c
    ELSE 0

LowerChar(c) ==
    LET i == IndexOf(UpperCase, c) IN IF i = 0 THEN c ELSE CharAt(LowerCase, i)

UpperChar(c) ==
    LET i == IndexOf(LowerCase, c) IN IF i = 0 THEN c ELSE CharAt(UpperCase, i)

RECURSIVE lower(_)
\* str.lower
lower(s) == IF s = "" THEN "" ELSE LowerChar(Head(s)) \o lower(Tail(s))

\* str.capitalize: first character upper-cased, the rest lower-cased
capitalize(s) == IF s = "" THEN "" ELSE UpperChar(Head(s)) \o lower(Tail(s))

RECURSIVE lstrip_chars(_, _)
\* str.lstrip(chars)
lstrip_chars(s, chars) ==
    IF s # "" /\ Head(s) \in chars THEN lstrip_chars(Tail(s), chars) ELSE s

RECURSIVE rstrip_chars(_, _)
\* str.rstrip(chars)
rstrip_chars(s, chars) ==
    IF s # "" /\ CharAt(s, Len(s)) \in chars
    THEN rstrip_chars(SubSeq(s, 1, Len(s) - 1), chars)
    ELSE s

\* str.strip()
strip(s) == rstrip_chars(lstrip_chars(s, Whitespace), Whitespace)

\* sub in s
Contains(s, sub) ==
    \E i \in 1..(Len(s) - Len(sub) + 1) : SubSeq(s, i, i + Len(sub) - 1) = sub

\* s.find(c) + 1 and s.rfind(c) + 1 for a one-character c
find(s, c) == IndexOf(s, c)
rfind(s, c) ==
    IF \E i \in 1..Len(s) : CharAt(s, i) = c
    THEN CHOOSE i \in 1..Len(s) : CharAt(s, i) = c /\ \A j \in (i+1)..Len(s) : CharAt(s, j) # c
    ELSE 0

IsDigits(s) == s # "" /\ \A i \in 1..Len(s) : IndexOf(DecimalDigits, CharAt(s, i)) # 0

RECURSIVE int(_)
\* int(s) for a string of decimal digits
int(s) ==
    IF s = "" THEN 0
    ELSE 10 * int(SubSeq(s, 1, Len(s) - 1)) + (IndexOf(DecimalDigits, CharAt(s, Len(s))) - 1)

RECURSIVE Pow10(_)
Pow10(n) == IF n = 0 THEN 1 ELSE 10 * Pow10(n - 1)

\* float(s) for s = digits, digits.digits, digits. or .digits, with an
\* optional sign and surrounding whitespace, as a whole number of units of
\* 10^-places: tenths for warp factors, hundredths for confidences.  Text
\* without that shape is the ValueError of float(); exponents, inf and nan
\* are not among the inputs of the model, nor are fractions longer than
\* `places` digits.
float(s, places) ==
    LET signed == strip(s)
        sign == IF CharAt(signed, 1) = "-" THEN -1 ELSE 1
        t == IF CharAt(signed, 1) \in {"-", "+"} THEN Tail(signed) ELSE signed
        dot == find(t, ".")
        whole == IF dot = 0 THEN t ELSE SubSeq(t, 1, dot - 1)
        frac == IF dot = 0 THEN "" ELSE SubSeq(t, dot + 1, Len(t))
        padded == SubSeq(frac \o "00", 1, places)
    IN  IF IsDigits(whole \o frac)
        THEN Num(sign * (int(whole) * Pow10(places) + int(padded)))
        ELSE [kind |-> "ValueError"]

----------------------------------------------------------------------------
(* Python regular expressions (re.search), as far as the patterns of        *)
(* _try_pattern_match go.  A pattern is a sequence of nodes; matching is the *)
(* backtracking search of re: alternatives in order, quantifiers greedy, so  *)
(* the groups are the ones re reports.                                       *)

Lit(str) == [op |-> "lit", s |-> str]          \* literal text
Cls(c) == [op |-> "class", c |-> c]            \* \s, \d, \w or .
Star(c) == [op |-> "star", c |-> c]            \* class*
Plus(c) == [op |-> "plus", c |-> c]            \* class+
Opt(r) == [op |-> "opt", r |-> r]              \* (?:r)?
Alt(rs) == [op |-> "alt", rs |-> rs]           \* (?:r1|r2|...)
Grp(n, r) == [op |-> "group", n |-> n, r |-> r]  \* capturing group number n
Bol == [op |-> "bol"]                          \* ^
Eol == [op |-> "eol"]                          \* $

InClass(ch, c) ==
    CASE c = "s" -> ch \in Whitespace
      [] c = "d" -> IndexOf(DecimalDigits, ch) # 0
      [] c = "w" -> \/ IndexOf(LowerCase, ch) # 0
                    \/ IndexOf(UpperCase, ch) # 0
                    \/ IndexOf(DecimalDigits, ch) # 0
                    \/ ch = "_"
      [] c = "." -> ch # "\n"

NoMatch == [ok |-> FALSE]
NoGroups == <<None, None>>

RECURSIVE MatchAt(_, _, _, _)
\* the first way, in re's order of trial, in which nodes match s from
\* position i on; caps holds the groups closed so far
MatchAt(nodes, s, i, caps) ==
    IF Len(nodes) = 0 THEN [ok |-> TRUE, end |-> i, caps |-> caps]
    ELSE
    LET n == Head(nodes)
        rest == Tail(nodes)
        here == i <= Len(s) /\ InClass(CharAt(s, i), n.c)
    IN  CASE n.op = "lit" ->
                IF i + Len(n.s) - 1 <= Len(s) /\ SubSeq(s, i, i + Len(n.s) - 1) = n.s
                THEN MatchAt(rest, s, i + Len(n.s), caps)
                ELSE NoMatch
          [] n.op = "class" ->
                IF here THEN MatchAt(rest, s, i + 1, caps) ELSE NoMatch
          [] n.op = "star" ->
                IF here
                THEN LET more == MatchAt(nodes, s, i + 1, caps)
                     IN  IF more.ok THEN more ELSE MatchAt(rest, s, i, caps)
                ELSE MatchAt(rest, s, i, caps)
          [] n.op = "plus" ->
                IF here THEN MatchAt(<<Star(n.c)>> \o rest, s, i + 1, caps) ELSE NoMatch
          [] n.op = "opt" ->
                LET with == MatchAt(n.r \o rest, s, i, caps)
                IN  IF with.ok THEN with ELSE MatchAt(rest, s, i, caps)
          [] n.op = "alt" ->
                IF Len(n.rs) = 0 THEN NoMatch
                ELSE LET first == MatchAt(Head(n.rs) \o rest, s, i, caps)
                     IN  IF first.ok THEN first
                         ELSE MatchAt(<<Alt(Tail(n.rs))>> \o rest, s, i, caps)
          [] n.op = "group" ->
                MatchAt(n.r \o <<[op |-> "endgroup", n |-> n.n, start |-> i]>> \o rest,
                        s, i, caps)
          [] n.op = "endgroup" ->
                MatchAt(rest, s, i, [caps EXCEPT ![n.n] = Str(SubSeq(s, n.start, i - 1))])
          [] n.op = "bol" ->
                IF i = 1 THEN MatchAt(rest, s, i, caps) ELSE NoMatch
          [] n.op = "eol" ->
                IF i = Len(s) + 1 \/ (i = Len(s) /\ CharAt(s, i) = "\n")
                THEN MatchAt(rest, s, i, caps)
                ELSE NoMatch

RECURSIVE SearchFrom(_, _, _)
SearchFrom(nodes, s, i) ==
    IF i > Len(s) + 1 THEN NoMatch
    ELSE LET m == MatchAt(nodes, s, i, NoGroups)
         IN  IF m.ok THEN m ELSE SearchFrom(nodes, s, i + 1)

\* re.search(pattern, s): the leftmost match, or NoMatch for None
search(nodes, s) == SearchFrom(nodes, s, 1)

\* match.group(n): Str(text) or None
group(m, n) == m.caps[n]

----------------------------------------------------------------------------
(* json.loads, for the JSON an LLM reply can carry: objects, arrays, strings *)
(* without escapes, numbers without exponent, true, false and null.  A       *)
(* number is kept as its text until a field of the command gives it a unit.  *)

Number(lexeme) == [kind |-> "number", lexeme |-> lexeme]
Bool(b) == [kind |-> "bool", val |-> b]
List(items) == [kind |-> "list", items |-> items]
Dict(items) == [kind |-> "dict", items |-> items]
EmptyDict == [k \in {} |-> None]

JSONDecodeError == [ok |-> FALSE]
Parsed(v, pos) == [ok |-> TRUE, val |-> v, pos |-> pos]

IsDigit(c) == c # "" /\ IndexOf(DecimalDigits, c) # 0

RECURSIVE skip_ws(_, _)
\* the position of the first character of s at or after i that is not whitespace
skip_ws(s, i) == IF CharAt(s, i) \in Whitespace THEN skip_ws(s, i + 1) ELSE i

RECURSIVE digits_end(_, _)
\* the position after the run of digits that starts at i
digits_end(s, i) == IF IsDigit(CharAt(s, i)) THEN digits_end(s, i + 1) ELSE i

\* -?(?:0|[1-9]\d*)(\.\d+)?
parse_number(s, i) ==
    LET j == IF CharAt(s, i) = "-" THEN i + 1 ELSE i
        k == IF CharAt(s, j) = "0" THEN j + 1 ELSE digits_end(s, j)
        e == IF CharAt(s, k) = "." /\ digits_end(s, k + 1) > k + 1
             THEN digits_end(s, k + 1)
             ELSE k
    IN  IF k > j THEN Parsed(Number(SubSeq(s, i, e - 1)), e) ELSE JSONDecodeError

RECURSIVE string_end(_, _)
\* the position of the quote that closes a string whose content starts at i;
\* 0 when there is none (or when an escape, which no input has, comes first)
string_end(s, i) ==
    IF i > Len(s) \/ CharAt(s, i) = "\\" THEN 0
    ELSE IF CharAt(s, i) = "\"" THEN i
    ELSE string_end(s, i + 1)

parse_string(s, i) ==
    LET e == string_end(s, i + 1)
    IN  IF CharAt(s, i) = "\"" /\ e # 0
        THEN Parsed(Str(SubSeq(s, i + 1, e - 1)), e + 1)
        ELSE JSONDecodeError

StartsWithAt(s, i, word) ==
    i + Len(word) - 1 <= Len(s) /\ SubSeq(s, i, i + Len(word) - 1) = word

RECURSIVE parse_value(_, _)
RECURSIVE parse_members(_, _, _)
RECURSIVE parse_elements(_, _, _)

\* the value that starts at position i of s
parse_value(s, i) ==
    LET c == CharAt(s, i)
        inside == skip_ws(s, i + 1)
    IN  CASE c = "{" ->
                IF CharAt(s, inside) = "}" THEN Parsed(Dict(EmptyDict), inside + 1)
                ELSE parse_members(s, inside, EmptyDict)
          [] c = "[" ->
                IF CharAt(s, inside) = "]" THEN Parsed(List(<<>>), inside + 1)
                ELSE parse_elements(s, inside, <<>>)
          [] c = "\"" -> parse_string(s, i)
          [] c = "-" \/ IsDigit(c) -> parse_number(s, i)
          [] StartsWithAt(s, i, "null") -> Parsed(None, i + 4)
          [] StartsWithAt(s, i, "true") -> Parsed(Bool(TRUE), i + 4)
          [] StartsWithAt(s, i, "false") -> Parsed(Bool(FALSE), i + 5)
          [] OTHER -> JSONDecodeError

\* the members of an object from the key at position i on; a repeated key
\* keeps its last value
parse_members(s, i, items) ==
    LET key == parse_string(s, i)
        colon == skip_ws(s, key.pos)
        value == parse_value(s, skip_ws(s, colon + 1))
        next == skip_ws(s, value.pos)
        now == (key.val.val :> value.val) @@ items
    IN  IF ~key.ok \/ CharAt(s, colon) # ":" THEN JSONDecodeError
        ELSE IF ~value.ok THEN JSONDecodeError
        ELSE IF CharAt(s, next) = "}" THEN Parsed(Dict(now), next + 1)
        ELSE IF CharAt(s, next) = "," THEN parse_members(s, skip_ws(s, next + 1), now)
        ELSE JSONDecodeError

\* the elements of an array from the value at position i on
parse_elements(s, i, items) ==
    LET value == parse_value(s, i)
        next == skip_ws(s, value.pos)
        now == Append(items, value.val)
    IN  IF ~value.ok THEN JSONDecodeError
        ELSE IF CharAt(s, next) = "]" THEN Parsed(List(now), next + 1)
        ELSE IF CharAt(s, next) = "," THEN parse_elements(s, skip_ws(s, next + 1), now)
        ELSE JSONDecodeError

\* Python truthiness of a value: None, False, 0, "", [] and {} are falsy.
Truthy(v) ==
    CASE v.kind = "None"   -> FALSE
      [] v.kind = "num"    -> v.val # 0
      [] v.kind = "str"    -> v.val # ""
      [] v.kind = "bool"   -> v.val
      [] v.kind = "number" -> \E i \in 1..Len(v.lexeme) :
                                  IndexOf("123456789", CharAt(v.lexeme, i)) # 0
      [] v.kind = "list"   -> Len(v.items) # 0
      [] v.kind = "dict"   -> DOMAIN v.items # {}

\* json.loads(s): the value, when s is one JSON value between optional
\* whitespace; JSONDecodeError otherwise
json_loads(s) ==
    LET v == parse_value(s, skip_ws(s, 1))
    IN  IF v.ok /\ skip_ws(s, v.pos) = Len(s) + 1 THEN v ELSE JSONDecodeError

----------------------------------------------------------------------------
(* Data structures *)

Department == {"helm", "tactical", "engineering", "ops"}

Intent == {"navigate", "navigate_coordinates", "warp", "impulse", "stop",
           "disengage", "orbit", "reverse", "turn", "evasive", "dock", "land",
           "raise_shields", "lower_shields", "red_alert", "yellow_alert",
           "green_alert", "fire", "status", "damage_report", "scan", "hail",
           "viewscreen"}

BridgeCommand(d, i, t, w, p, m) ==
    [department |-> d, intent |-> i, target |-> t, warp_factor |-> w,
     impulse_percent |-> p, maneuver |-> m]

\* 0 < warp_factor < 10, in tenths
WarpLimit == 100
\* 0 <= impulse_percent <= 100
ImpulseLimit == 100

\* is_valid with the warp-factor bounds made inclusive (0 <= warp_factor <= 10)
is_valid_inclusive_warp(c) ==
    IF c.department \notin Department THEN "False"
    ELSE IF c.intent \notin Intent THEN "False"
    ELSE IF c.warp_factor # None /\ c.warp_factor.kind # "num" THEN "TypeError"
    ELSE IF c.warp_factor # None
            /\ ~(0 <= c.warp_factor.val /\ c.warp_factor.val <= WarpLimit) THEN "False"
    ELSE IF c.impulse_percent # None /\ c.impulse_percent.kind # "num" THEN "TypeError"
    ELSE IF c.impulse_percent # None
            /\ ~(0 <= c.impulse_percent.val /\ c.impulse_percent.val <= ImpulseLimit)
         THEN "False"
    ELSE "True"

\* BridgeCommand.is_valid: "True", "False", or "TypeError" when a present numeric
\* field is not a number (the comparison 0 < "five" raises).  The checks run
\* in the order of the code, so an unknown department is rejected before a
\* malformed warp factor can raise.
is_valid(c) ==
    IF c.department \notin Department THEN "False"
    ELSE IF c.intent \notin Intent THEN "False"
    ELSE IF c.warp_factor # None /\ c.warp_factor.kind # "num" THEN "TypeError"
    ELSE IF c.warp_factor # None
            /\ ~(0 < c.warp_factor.val /\ c.warp_factor.val < WarpLimit) THEN "False"
    ELSE IF c.impulse_percent # None /\ c.impulse_percent.kind # "num" THEN "TypeError"
    ELSE IF c.impulse_percent # None
            /\ ~(0 <= c.impulse_percent.val /\ c.impulse_percent.val <= ImpulseLimit)
         THEN "False"
    ELSE "True"

----------------------------------------------------------------------------
(* IntentParser._try_pattern_match: the tables and patterns *)

\* dict.get(key, default)
get(d, key, default) == IF key \in DOMAIN d THEN d[key] ELSE default

valid_targets ==
    ("sun" :> "Sun") @@ ("the sun" :> "Sun") @@ ("sol" :> "Sun") @@
    ("mercury" :> "Mercury") @@
    ("venus" :> "Venus") @@
    ("earth" :> "Earth") @@ ("terra" :> "Earth") @@ ("home" :> "Earth") @@
    ("moon" :> "Moon") @@ ("the moon" :> "Moon") @@ ("luna" :> "Moon") @@
    ("mars" :> "Mars") @@
    ("jupiter" :> "Jupiter") @@
    ("saturn" :> "Saturn") @@
    ("uranus" :> "Uranus") @@
    ("neptune" :> "Neptune") @@
    ("pluto" :> "Pluto") @@
    ("starbase" :> "Starbase 1") @@ ("starbase 1" :> "Starbase 1") @@
    ("starbase one" :> "Starbase 1") @@
    ("spacedock" :> "Starbase 1") @@ ("space dock" :> "Starbase 1") @@
    ("deep space nine" :> "Deep Space Nine") @@
    ("deep space 9" :> "Deep Space Nine") @@ ("ds9" :> "Deep Space Nine")

\* \d+(?:\.\d+)?
NumberRe == <<Plus("d"), Opt(<<Lit("."), Plus("d")>>)>>
\* \w+(?:\s+\w+)?
NameRe == <<Plus("w"), Opt(<<Plus("s"), Plus("w")>>)>>
\* the alternatives of a (?:a|b|...) of plain words
Words(ws) == Alt([k \in 1..Len(ws) |-> <<Lit(ws[k])>>])

warp_match_re ==
    <<Lit("warp"), Star("s"),
      Opt(<<Alt(<< <<Lit("factor"), Star("s")>>, <<Lit("speed"), Star("s")>> >>)>>),
      Grp(1, NumberRe)>>

increase_warp_re ==
    <<Words(<<"increase", "raise", "change", "set", "adjust">>), Plus("s"),
      Opt(<<Lit("speed"), Plus("s")>>), Lit("to"), Plus("s"), Lit("warp"), Star("s"),
      Grp(1, NumberRe)>>

increase_warp2_re ==
    <<Lit("increase"), Plus("s"), Lit("to"), Plus("s"), Lit("warp"), Star("s"),
      Grp(1, NumberRe)>>

slow_warp_re ==
    <<Words(<<"slow", "reduce", "decrease">>), Plus("s"),
      Opt(<<Lit("speed"), Plus("s")>>), Lit("to"), Plus("s"), Lit("warp"), Star("s"),
      Grp(1, NumberRe)>>

ahead_warp_re ==
    <<Lit("ahead"), Plus("s"), Lit("warp"), Star("s"),
      Opt(<<Lit("factor"), Star("s")>>), Grp(1, NumberRe)>>

orbit_match_re ==
    <<Words(<<"orbit", "enter orbit around", "establish orbit around">>), Plus("s"),
      Grp(1, NameRe)>>

scan_match_re == <<Lit("scan"), Plus("s"), Grp(1, <<Plus(".")>>)>>

evasive_match_re ==
    <<Lit("evasive"), Plus("s"), Opt(<<Lit("pattern"), Plus("s")>>),
      Grp(1, <<Plus("w")>>)>>

hail_match_re == <<Lit("hail"), Plus("s"), Grp(1, <<Plus(".")>>)>>

fire_match_re ==
    <<Words(<<"fire", "target", "fire at", "fire on">>), Plus("s"),
      Grp(1, <<Plus(".")>>)>>

dock_match_re ==
    <<Lit("dock"), Plus("s"), Opt(<<Lit("with"), Plus("s")>>),
      Opt(<<Lit("the"), Plus("s")>>), Grp(1, <<Plus(".")>>)>>

land_match_re ==
    <<Lit("land"), Plus("s"), Opt(<<Lit("on"), Plus("s")>>),
      Opt(<<Lit("the"), Plus("s")>>), Grp(1, <<Plus(".")>>)>>

\* (?:.*warp\s*(?:factor\s*)?(\d+(?:\.\d+)?))?
WarpTailRe ==
    <<Opt(<<Star("."), Lit("warp"), Star("s"), Opt(<<Lit("factor"), Star("s")>>),
            Grp(2, NumberRe)>>)>>

\* (?:for|to)\s+(?:the\s+)?(\w+(?:\s+\w+)?)
DestinationRe ==
    <<Words(<<"for", "to">>), Plus("s"), Opt(<<Lit("the"), Plus("s")>>), Grp(1, NameRe)>>

nav_patterns ==
    << <<Alt(<< <<Lit("set")>>, <<Lit("plot")>>, <<Lit("lay"), Plus("s"), Lit("in")>> >>),
         Plus("s"), Opt(<<Lit("a"), Plus("s")>>), Lit("course"), Plus("s")>>
         \o DestinationRe \o WarpTailRe,
       <<Lit("course"), Plus("s")>> \o DestinationRe \o WarpTailRe,
       <<Alt(<< <<Lit("take"), Plus("s"), Lit("us"), Plus("s"), Lit("to")>>,
                <<Lit("head"), Plus("s"), Words(<<"for", "to">>)>>,
                <<Lit("go"), Plus("s"), Lit("to")>>,
                <<Lit("let"), Opt(<<Lit("'")>>), Lit("s"), Plus("s"), Lit("go"),
                  Plus("s"), Lit("to")>> >>),
         Plus("s"), Opt(<<Lit("the"), Plus("s")>>), Grp(1, NameRe)>> \o WarpTailRe,
       <<Bol, Grp(1, NameRe), Plus("s"), Lit("warp"), Star("s"),
         Opt(<<Lit("factor"), Star("s")>>), Grp(2, NumberRe)>>,
       <<Bol, Opt(<<Lit("the"), Plus("s")>>), Grp(1, NameRe), Star("s"), Eol>> >>

----------------------------------------------------------------------------
(* IntentParser._try_pattern_match *)

\* text_lower with the closing punctuation kept
text_lower_keep_period(txt) == strip(lower(txt))

\* text.lower().strip().rstrip('.').rstrip(',').rstrip('!')
text_lower(txt) ==
    rstrip_chars(rstrip_chars(rstrip_chars(strip(lower(txt)), {"."}), {","}), {"!"})

\* any(p in t for p in subs)
ContainsAny(t, subs) == \E p \in subs : Contains(t, p)

WarpCommand(w) == BridgeCommand("helm", "warp", None, w, None, None)
ImpulseCommand(p) == BridgeCommand("helm", "impulse", None, None, Num(p), None)
Plain(department, intent) == BridgeCommand(department, intent, None, None, None, None)
Targeted(department, intent, target) ==
    BridgeCommand(department, intent, Str(target), None, None, None)

\* float(match.group(n)), a warp factor in tenths
group_float(m, n) == float(group(m, n).val, 1)

\* valid_targets.get(target_text, target_text.capitalize())
pattern_target(target_text) == get(valid_targets, target_text, capitalize(target_text))

\* the speed-change phrasings around "to warp N" and "ahead warp N"
match_warp_change(t) ==
    LET increase_warp == search(increase_warp_re, t)
        increase_warp2 == search(increase_warp2_re, t)
        slow_warp == search(slow_warp_re, t)
        ahead_warp == search(ahead_warp_re, t)
    IN  IF increase_warp.ok THEN WarpCommand(group_float(increase_warp, 1))
        ELSE IF increase_warp2.ok THEN WarpCommand(group_float(increase_warp2, 1))
        ELSE IF slow_warp.ok THEN WarpCommand(group_float(slow_warp, 1))
        ELSE IF ahead_warp.ok THEN WarpCommand(group_float(ahead_warp, 1))
        ELSE None

\* Star Trek catchphrases, matched against the whole utterance
match_catchphrase(t) ==
    IF t \in {"punch it", "hit it"} THEN WarpCommand(Num(90))
    ELSE IF t \in {"engage", "make it so", "energize"} THEN WarpCommand(Num(50))
    ELSE IF t \in {"maximum warp", "max warp"} THEN WarpCommand(Num(99))
    ELSE IF t \in {"warp speed", "engage warp", "engage warp drive"} THEN WarpCommand(Num(50))
    ELSE IF t = "faster" THEN WarpCommand(Num(70))
    ELSE None

nav_words == {"course", "head", "take", "go to", "set", "plot", "lay"}

\* the bare "warp N" rule without its two guards
match_bare_warp_unguarded(t) ==
    LET warp_match == search(warp_match_re, t)
    IN  IF warp_match.ok THEN WarpCommand(group_float(warp_match, 1)) ELSE None

\* "warp N" with no destination and no navigation word in the utterance
match_bare_warp(t) ==
    LET warp_match == search(warp_match_re, t)
    IN  IF /\ warp_match.ok
           /\ ~ContainsAny(t, DOMAIN valid_targets)
           /\ ~ContainsAny(t, nav_words)
        THEN WarpCommand(group_float(warp_match, 1))
        ELSE None

\* the impulse phrasings, in the order the code tests them
match_impulse(t) ==
    IF Contains(t, "full impulse") \/ Contains(t, "ahead full") THEN ImpulseCommand(100)
    ELSE IF Contains(t, "half impulse") THEN ImpulseCommand(50)
    ELSE IF Contains(t, "quarter impulse") \/ Contains(t, "one quarter impulse")
         THEN ImpulseCommand(25)
    ELSE IF Contains(t, "three quarter impulse") THEN ImpulseCommand(75)
    ELSE IF Contains(t, "ahead one third") \/ Contains(t, "one third impulse")
         THEN ImpulseCommand(33)
    ELSE IF Contains(t, "ahead two thirds") \/ Contains(t, "two thirds impulse")
         THEN ImpulseCommand(66)
    ELSE IF t \in {"impulse", "impulse power", "impulse speed"} THEN ImpulseCommand(50)
    ELSE IF Contains(t, "thrusters only") \/ Contains(t, "thrusters") THEN ImpulseCommand(10)
    ELSE None

stop_phrases == {"all stop", "stop", "full stop", "hold position", "holding position",
                 "drop out of warp", "exit warp", "come out of warp"}
disengage_phrases == {"disengage", "cancel course", "abort", "disengage autopilot"}

\* stop, disengage and reverse
match_stop(t) ==
    IF t \in stop_phrases \/ ContainsAny(t, {"drop out of warp", "exit warp"})
    THEN Plain("helm", "stop")
    ELSE IF t \in disengage_phrases \/ Contains(t, "disengage")
    THEN Plain("helm", "disengage")
    ELSE IF t \in {"reverse", "reverse engines", "back up", "back us off", "full reverse"}
    THEN Plain("helm", "reverse")
    ELSE None

\* shields, alerts, status and damage report
match_tactical(t) ==
    IF Contains(t, "raise shields") \/ Contains(t, "shields up")
    THEN Plain("tactical", "raise_shields")
    ELSE IF Contains(t, "lower shields") \/ Contains(t, "shields down")
    THEN Plain("tactical", "lower_shields")
    ELSE IF Contains(t, "red alert") \/ Contains(t, "battle stations")
    THEN Plain("tactical", "red_alert")
    ELSE IF Contains(t, "yellow alert") THEN Plain("tactical", "yellow_alert")
    ELSE IF Contains(t, "green alert") \/ t = "stand down"
    THEN Plain("tactical", "green_alert")
    ELSE IF t \in {"status", "status report", "report", "ship status"}
    THEN Plain("ops", "status")
    ELSE IF Contains(t, "damage report") THEN Plain("engineering", "damage_report")
    ELSE None

\* orbit, scan, evasive, hail, fire, dock and land
match_target(t) ==
    LET orbit_match == search(orbit_match_re, t)
        scan_match == search(scan_match_re, t)
        evasive_match == search(evasive_match_re, t)
        hail_match == search(hail_match_re, t)
        fire_match == search(fire_match_re, t)
        dock_match == search(dock_match_re, t)
        land_match == search(land_match_re, t)
    IN  IF t \in {"standard orbit", "enter orbit", "establish orbit", "orbit"}
        THEN Plain("helm", "orbit")
        ELSE IF orbit_match.ok
        THEN Targeted("helm", "orbit", pattern_target(lower(group(orbit_match, 1).val)))
        ELSE IF scan_match.ok
        THEN Targeted("ops", "scan", pattern_target(strip(group(scan_match, 1).val)))
        ELSE IF t = "evasive maneuvers" \/ t = "evasive"
        THEN Plain("helm", "evasive")
        ELSE IF evasive_match.ok
        THEN BridgeCommand("helm", "evasive", None, None, None, group(evasive_match, 1))
        ELSE IF t \in {"hail them", "open a channel", "on screen", "open channel"}
        THEN Plain("ops", "hail")
        ELSE IF hail_match.ok
        THEN Targeted("ops", "hail", pattern_target(strip(group(hail_match, 1).val)))
        ELSE IF ContainsAny(t, {"fire phasers", "fire torpedoes", "open fire"})
        THEN Targeted("tactical", "fire", "enemy")
        ELSE IF fire_match.ok
        THEN Targeted("tactical", "fire", capitalize(strip(group(fire_match, 1).val)))
        ELSE IF Contains(t, "dock")
        THEN IF dock_match.ok
             THEN Targeted("helm", "dock",
                           pattern_target(lower(strip(group(dock_match, 1).val))))
             ELSE Targeted("helm", "dock", "Starbase 1")
        ELSE IF land_match.ok
        THEN Targeted("helm", "land", pattern_target(lower(strip(group(land_match, 1).val))))
        ELSE None

RECURSIVE match_nav_patterns(_, _)
\* the loop over nav_patterns from pattern k on: the first pattern that
\* matches with a destination found in valid_targets decides
match_nav_patterns(t, k) ==
    IF k > Len(nav_patterns) THEN None
    ELSE LET match == search(nav_patterns[k], t)
             target_text == lower(strip(group(match, 1).val))
             warp == IF group(match, 2) # None /\ group(match, 2).val # ""
                     THEN group_float(match, 2)
                     ELSE Num(50)
         IN  IF match.ok /\ target_text \in DOMAIN valid_targets
             THEN BridgeCommand("helm", "navigate", Str(valid_targets[target_text]),
                                warp, None, None)
             ELSE match_nav_patterns(t, k + 1)

\* navigation with a destination
match_navigate(t) ==
    IF ContainsAny(t, {"go home", "take me home", "back to earth"})
    THEN BridgeCommand("helm", "navigate", Str("Earth"), Num(50), None, None)
    ELSE match_nav_patterns(t, 1)

\* _try_pattern_match(text): the command of the first rule that fires, None
\* when none does
_try_pattern_match(txt) ==
    LET t == text_lower(txt)
        warp_change == match_warp_change(t)
        catchphrase == match_catchphrase(t)
        bare_warp == match_bare_warp(t)
        impulse == match_impulse(t)
        stop == match_stop(t)
        tactical == match_tactical(t)
        targeted == match_target(t)
    IN  IF warp_change # None THEN warp_change
        ELSE IF catchphrase # None THEN catchphrase
        ELSE IF bare_warp # None THEN bare_warp
        ELSE IF impulse # None THEN impulse
        ELSE IF stop # None THEN stop
        ELSE IF tactical # None THEN tactical
        ELSE IF targeted # None THEN targeted
        ELSE match_navigate(t)

----------------------------------------------------------------------------
(* IntentParser._extract_json and the LLM path of IntentParser.parse *)

\* _extract_json with the object cut at the first "}" after its "{"
_extract_json_first_close(txt) ==
    LET whole == json_loads(txt)
        start_idx == find(txt, "{")
        end_idx == find(txt, "}")
        inner == json_loads(SubSeq(txt, start_idx, end_idx))
    IN  IF whole.ok THEN whole.val
        ELSE IF start_idx # 0 /\ end_idx # 0 /\ inner.ok THEN inner.val
        ELSE None

\* _extract_json(text): the whole text as JSON, else the text from its first
\* "{" to its last "}" as JSON, else None
_extract_json(txt) ==
    LET whole == json_loads(txt)
        start_idx == find(txt, "{")
        end_idx == rfind(txt, "}")
        inner == json_loads(SubSeq(txt, start_idx, end_idx))
    IN  IF whole.ok THEN whole.val
        ELSE IF start_idx # 0 /\ end_idx # 0 /\ inner.ok THEN inner.val
        ELSE None

\* Config.MIN_CONFIDENCE, in hundredths
MIN_CONFIDENCE == 30

\* the default of a missing, falsy or unconvertible confidence, in hundredths
DefaultConfidence == 50

\* confidence = json_data.get('confidence', 0.5), then
\* float(confidence) if confidence else 0.5, with ValueError and TypeError
\* turned into 0.5; in hundredths
coerce_confidence(items) ==
    LET confidence == get(items, "confidence", Number("0.5"))
        parsed == float(IF confidence.kind = "number" THEN confidence.lexeme
                        ELSE confidence.val, 2)
    IN  IF ~Truthy(confidence) THEN DefaultConfidence
        ELSE CASE confidence.kind \in {"number", "str"} ->
                      IF parsed.kind = "num" THEN parsed.val ELSE DefaultConfidence
               [] confidence.kind = "bool" -> 100
               [] OTHER -> DefaultConfidence

intent_map ==
    ("navigation" :> "navigate") @@ ("set_course" :> "navigate") @@
    ("course" :> "navigate") @@ ("go_to" :> "navigate") @@ ("goto" :> "navigate") @@
    ("head_to" :> "navigate") @@ ("take_us_to" :> "navigate") @@
    ("plot_course" :> "navigate") @@ ("lay_in_course" :> "navigate") @@
    ("engage" :> "warp") @@ ("engage_warp" :> "warp") @@ ("warp_speed" :> "warp") @@
    ("increase_speed" :> "warp") @@ ("change_speed" :> "warp") @@
    ("full_stop" :> "stop") @@ ("all_stop" :> "stop") @@ ("halt" :> "stop") @@
    ("hold" :> "stop") @@ ("hold_position" :> "stop") @@ ("drop_out" :> "stop") @@
    ("exit_warp" :> "stop") @@
    ("shields_up" :> "raise_shields") @@ ("shields_down" :> "lower_shields") @@
    ("enter_orbit" :> "orbit") @@ ("standard_orbit" :> "orbit") @@
    ("establish_orbit" :> "orbit") @@
    ("report" :> "status") @@ ("ship_status" :> "status") @@
    ("status_report" :> "status") @@
    ("battlestations" :> "red_alert") @@ ("battle_stations" :> "red_alert") @@
    ("condition_red" :> "red_alert") @@ ("condition_yellow" :> "yellow_alert") @@
    ("condition_green" :> "green_alert") @@ ("stand_down" :> "green_alert") @@
    ("evasive_maneuvers" :> "evasive") @@ ("evasive_action" :> "evasive") @@
    ("open_channel" :> "hail") @@ ("hail_ship" :> "hail") @@
    ("on_screen" :> "viewscreen") @@ ("onscreen" :> "viewscreen") @@
    ("attack" :> "fire") @@ ("fire_weapons" :> "fire") @@
    ("fire_phasers" :> "fire") @@ ("fire_torpedoes" :> "fire")

target_map ==
    ("sol" :> "Sun") @@ ("the sun" :> "Sun") @@
    ("terra" :> "Earth") @@ ("home" :> "Earth") @@
    ("luna" :> "Moon") @@ ("the moon" :> "Moon") @@
    ("starbase one" :> "Starbase 1") @@ ("starbase" :> "Starbase 1") @@
    ("spacedock" :> "Starbase 1") @@ ("space dock" :> "Starbase 1") @@
    ("deep space nine" :> "Deep Space Nine") @@
    ("deep space 9" :> "Deep Space Nine") @@ ("ds9" :> "Deep Space Nine")

\* llm_target with the name as given for a target outside the table
llm_target_no_capitalize(target) == get(target_map, lower(target), target)

\* llm_target with the table looked up on the target as given
llm_target_no_lower(target) == get(target_map, target, capitalize(target))

\* target_map.get(target.lower(), target.capitalize())
llm_target(target) == get(target_map, lower(target), capitalize(target))

\* a department or intent as BridgeCommand holds it: the string itself; a
\* value that is no string is written the way Python prints it, which is
\* never the name of a department or of an intent
name_of(v) ==
    CASE v.kind = "str"  -> v.val
      [] v.kind = "None" -> "None"
      [] OTHER           -> "<" \o v.kind \o ">"

\* a JSON number in the unit of the field that receives it; other values as
\* they are
in_unit(v, places) == IF v.kind = "number" THEN float(v.lexeme, places) ELSE v

\* the gate with the threshold itself rejected
below_threshold_inclusive(confidence) == confidence <= MIN_CONFIDENCE

\* confidence < Config.MIN_CONFIDENCE
below_threshold(confidence) == confidence < MIN_CONFIDENCE

\* intent_map.get(intent, intent) for a hashable intent
normalise_intent(intent) ==
    IF intent.kind = "str" THEN Str(get(intent_map, intent.val, intent.val)) ELSE intent

\* BridgeCommand(department=json_data.get('department', 'helm'), ...)
llm_command(items, intent, target) ==
    BridgeCommand(name_of(get(items, "department", Str("helm"))),
                  name_of(intent),
                  target,
                  in_unit(get(items, "warp_factor", None), 1),
                  in_unit(get(items, "impulse_percent", None), 0),
                  get(items, "maneuver", None))

\* how parse leaves its try block, and with what
ParseExit(exit, json, cmd) == [exit |-> exit, json_data |-> json, command |-> cmd]

\* parse, lines 984-1076: the intent and the target of a reply that passed
\* the gate are normalised and the command is built
normalise(json, intent, target) ==
    \* intent_map.get on a list or a dict: TypeError (unhashable)
    IF intent.kind \in {"list", "dict"} THEN ParseExit("exception", json, None)
    ELSE IF ~Truthy(target)
    THEN ParseExit("command", json,
                   llm_command(json.items, normalise_intent(intent), in_unit(target, 0)))
    \* target.lower() on a number, a list, a dict or True: AttributeError
    ELSE IF target.kind # "str" THEN ParseExit("exception", json, None)
    ELSE ParseExit("command", json,
                   llm_command(json.items, normalise_intent(intent),
                               Str(llm_target(target.val))))

\* Variant: the intent is read with json_data.get('intent'), no default
handle_json_intent_no_default(json) ==
    IF ~Truthy(json) THEN ParseExit("no_json", json, None)
    ELSE IF json.kind # "dict" THEN ParseExit("exception", json, None)
    ELSE IF below_threshold(coerce_confidence(json.items))
    THEN ParseExit("low_confidence", json, None)
    ELSE normalise(json, get(json.items, "intent", None),
                   get(json.items, "target", None))

\* parse, lines 965-1076: what becomes of json_data = _extract_json(...)
handle_json(json) ==
    IF ~Truthy(json) THEN ParseExit("no_json", json, None)
    \* json_data.get on a list, a string, a number or True: AttributeError
    ELSE IF json.kind # "dict" THEN ParseExit("exception", json, None)
    ELSE IF below_threshold(coerce_confidence(json.items))
    THEN ParseExit("low_confidence", json, None)
    ELSE normalise(json, get(json.items, "intent", Str("stop")),
                   get(json.items, "target", None))

\* the try block of parse for an LLM call that raised ("raise") or answered
\* with a text
parse_response(resp) ==
    IF resp.kind = "raise" THEN ParseExit("exception", None, None)
    ELSE handle_json(_extract_json(strip(resp.text)))

----------------------------------------------------------------------------
(* Command memory *)

CommandMemory_init ==
    [last_destination |-> None, last_warp_factor |-> None, last_impulse |-> None,
     shields_raised |-> FALSE, at_warp |-> FALSE]

\* the fields of update, one operator each, as the code assigns them
update_last_destination(m, c) ==
    IF Truthy(c.target) THEN c.target ELSE m.last_destination

\* Variant: the remembered warp factor follows the command even when the
\* command carries none
update_last_warp_factor_overwrite(m, c) ==
    c.warp_factor

update_last_warp_factor(m, c) ==
    IF Truthy(c.warp_factor) THEN c.warp_factor ELSE m.last_warp_factor

update_last_impulse(m, c) ==
    IF c.impulse_percent # None THEN c.impulse_percent ELSE m.last_impulse

update_at_warp(m, c) ==
    IF c.intent \in {"warp", "navigate"}
    THEN (IF Truthy(c.warp_factor) THEN TRUE ELSE m.at_warp)
    ELSE IF c.intent \in {"stop", "impulse", "disengage", "orbit"} THEN FALSE
    ELSE m.at_warp

update_shields_raised(m, c) ==
    IF c.intent = "raise_shields" THEN TRUE
    ELSE IF c.intent = "lower_shields" THEN FALSE
    ELSE m.shields_raised

\* update with at_warp cleared on stop and impulse only (not orbit, disengage)
update_orbit_keeps_warp(m, c) ==
    [last_destination |-> update_last_destination(m, c),
     last_warp_factor |-> update_last_warp_factor(m, c),
     last_impulse     |-> update_last_impulse(m, c),
     at_warp          |-> IF c.intent \in {"warp", "navigate"}
                          THEN (IF Truthy(c.warp_factor) THEN TRUE ELSE m.at_warp)
                          ELSE IF c.intent \in {"stop", "impulse"} THEN FALSE
                          ELSE m.at_warp,
     shields_raised   |-> update_shields_raised(m, c)]

\* update with impulse_percent tested for truth, so that 0 is dropped
update_impulse_truthy(m, c) ==
    [last_destination |-> update_last_destination(m, c),
     last_warp_factor |-> update_last_warp_factor(m, c),
     last_impulse     |-> IF Truthy(c.impulse_percent) THEN c.impulse_percent
                          ELSE m.last_impulse,
     at_warp          |-> update_at_warp(m, c),
     shields_raised   |-> update_shields_raised(m, c)]

\* update with red-alert style coupling: stop also drops the shields
update_stop_lowers_shields(m, c) ==
    [last_destination |-> update_last_destination(m, c),
     last_warp_factor |-> update_last_warp_factor(m, c),
     last_impulse     |-> update_last_impulse(m, c),
     at_warp          |-> update_at_warp(m, c),
     shields_raised   |-> IF c.intent = "raise_shields" THEN TRUE
                          ELSE IF c.intent \in {"lower_shields", "stop"} THEN FALSE
                          ELSE m.shields_raised]

\* update with the warp flag toggled by a warp command instead of set
update_toggle_warp(m, c) ==
    [last_destination |-> update_last_destination(m, c),
     last_warp_factor |-> update_last_warp_factor(m, c),
     last_impulse     |-> update_last_impulse(m, c),
     at_warp          |-> IF c.intent \in {"warp", "navigate"}
                          THEN (IF Truthy(c.warp_factor) THEN ~m.at_warp ELSE m.at_warp)
                          ELSE IF c.intent \in {"stop", "impulse", "disengage", "orbit"}
                          THEN FALSE
                          ELSE m.at_warp,
     shields_raised   |-> update_shields_raised(m, c)]

\* CommandMemory.update
update(m, c) ==
    [last_destination |-> update_last_destination(m, c),
     last_warp_factor |-> update_last_warp_factor(m, c),
     last_impulse     |-> update_last_impulse(m, c),
     at_warp          |-> update_at_warp(m, c),
     shields_raised   |-> update_shields_raised(m, c)]

\* CommandMemory.get_context_string: the remembered facts that go into the
\* LLM prompt, in the order the code appends them (values unrendered), or the
\* placeholder when there is none
get_context_string(m) ==
    LET parts ==
            <<[present |-> Truthy(m.last_destination),
               label |-> "Last destination", value |-> m.last_destination],
              [present |-> Truthy(m.last_warp_factor),
               label |-> "Last warp factor", value |-> m.last_warp_factor],
              [present |-> m.at_warp,
               label |-> "Ship is currently at warp", value |-> None],
              [present |-> m.shields_raised,
               label |-> "Shields are currently raised", value |-> None]>>
        said == SelectSeq(parts, LAMBDA part : part.present)
    IN  IF said = <<>> THEN << <<"No previous context", None>> >>
        ELSE [k \in 1..Len(said) |-> <<said[k].label, said[k].value>>]

----------------------------------------------------------------------------
(* Inputs of a cycle *)

TargetNames == {"Mars", "Earth"}

\* Warp factors the matcher's \d+(?:\.\d+)? can capture, in tenths: 0, 5, 9.9, 10
PatternWarp == {0, 50, 99, 100}

\* Commands IntentParser._try_pattern_match can return (a sample of each shape):
\* warp-only, impulse, stop, disengage, shields, status, orbit with and without
\* a target, scan with an empty captured target ("scan  ."), navigation.
PatternCommands ==
    {BridgeCommand("helm", "warp", None, Num(w), None, None) : w \in PatternWarp}
    \cup {BridgeCommand("helm", "impulse", None, None, Num(100), None),
          BridgeCommand("helm", "stop", None, None, None, None),
          BridgeCommand("helm", "disengage", None, None, None, None),
          BridgeCommand("tactical", "raise_shields", None, None, None, None),
          BridgeCommand("tactical", "lower_shields", None, None, None, None),
          BridgeCommand("ops", "status", None, None, None, None),
          BridgeCommand("helm", "orbit", None, None, None, None),
          BridgeCommand("ops", "scan", Str(""), None, None, None)}
    \cup {BridgeCommand("helm", "orbit", Str(t), None, None, None) : t \in TargetNames}
    \cup {BridgeCommand("helm", "navigate", Str(t), Num(w), None, None) :
            t \in TargetNames, w \in PatternWarp}

\* Field values an LLM reply can carry through IntentParser.parse into the
\* command: the reply is free-form JSON, so departments and intents outside the
\* enumerations, out-of-range numbers and non-numeric numbers all occur.
LLMDepartments == {"helm", "science"}
LLMIntents == {"navigate", "warp", "stop", "impulse", "disengage", "orbit",
               "raise_shields", "lower_shields", "status", "self_destruct"}
LLMTargets == {None, Str(""), Str("Mars")}
LLMWarp == {None, Num(0), Num(50), Str("five")}
LLMImpulse == {None, Num(0), Num(101)}

LLMCommands ==
    {BridgeCommand(d, i, t, w, p, None) :
        d \in LLMDepartments, i \in LLMIntents, t \in LLMTargets,
        w \in LLMWarp, p \in LLMImpulse}

Commands == PatternCommands \cup LLMCommands

----------------------------------------------------------------------------
(* Transport client *)

NoTrace == [connect |-> "none", send |-> "none", recv |-> "none"]

\* send_command that goes on to write after its connect attempt failed
send_command_result_write_anyway(conn, connectOk, snd, rcv) ==
    IF conn \/ connectOk
    THEN [result |-> "True", connected |-> TRUE,
          trace |-> [connect |-> IF conn THEN "none" ELSE "ok",
                     send |-> "ok", recv |-> "reply"]]
    ELSE [result |-> "False", connected |-> FALSE,
          trace |-> [connect |-> "failed", send |-> snd, recv |-> "none"]]

\* GodotClient.send_command, with GodotClient.connect inlined where the code
\* calls it.  conn is self.connected on entry; connectOk, snd and rcv are what
\* the peer does: whether a connect would succeed, how sendall ends
\* ("ok", "timeout", "error") and how recv(1024).decode('utf-8') ends
\* ("reply", "empty", "undecodable", "timeout", "error").
\* Gives the return value ("True", "False", or the exception that leaves the
\* method), self.connected on exit, and what the call did: connect is "none"
\* (no attempt), "ok" or "failed"; send and recv are "none" when not reached.
\* socket.timeout is handled before socket.error and does not touch
\* self.connected; a reply that is not UTF-8 raises UnicodeDecodeError, which
\* neither handler catches.
send_command_result(conn, connectOk, snd, rcv) ==
    IF ~conn /\ ~connectOk
    THEN [result |-> "False", connected |-> FALSE,
          trace |-> [connect |-> "failed", send |-> "none", recv |-> "none"]]
    ELSE LET attempt == IF conn THEN "none" ELSE "ok" IN
         IF snd = "timeout"
         THEN [result |-> "False", connected |-> TRUE,
               trace |-> [connect |-> attempt, send |-> snd, recv |-> "none"]]
         ELSE IF snd = "error"
         THEN [result |-> "False", connected |-> FALSE,
               trace |-> [connect |-> attempt, send |-> snd, recv |-> "none"]]
         ELSE IF rcv = "timeout"
         THEN [result |-> "False", connected |-> TRUE,
               trace |-> [connect |-> attempt, send |-> "ok", recv |-> rcv]]
         ELSE IF rcv = "error"
         THEN [result |-> "False", connected |-> FALSE,
               trace |-> [connect |-> attempt, send |-> "ok", recv |-> rcv]]
         ELSE IF rcv = "undecodable"
         THEN [result |-> "UnicodeDecodeError", connected |-> TRUE,
               trace |-> [connect |-> attempt, send |-> "ok", recv |-> rcv]]
         ELSE [result |-> "True", connected |-> TRUE,
               trace |-> [connect |-> attempt, send |-> "ok", recv |-> rcv]]

SendOutcomes == {"ok", "timeout", "error"}
RecvOutcomes == {"reply", "empty", "undecodable", "timeout", "error"}

----------------------------------------------------------------------------
(* The main loop *)

\* what main() can find when it starts: each library importable or not, the
\* whisper.cpp binary at one of the searched paths or not, GEMINI_API_KEY set
\* or not, the Gemini client constructible or not
Environments ==
    [pyaudio : BOOLEAN, whisper_cpp : BOOLEAN, genai : BOOLEAN,
     GEMINI_API_KEY : BOOLEAN, gemini_client : BOOLEAN]

parser_init ==
    /\ text = ""
    /\ response = None
    /\ json_data = None
    /\ llm_calls = 0
    /\ parse_exit = "none"
    /\ context = None
    /\ canonical = None

\* main() before BridgeAI() is constructed
Init ==
    /\ pc = "main"
    /\ env \in Environments
    /\ running = FALSE
    /\ memory = CommandMemory_init
    /\ command = None
    /\ source = "none"
    /\ valid = "none"
    /\ connected = FALSE
    /\ sendResult = "none"
    /\ sendTrace = NoTrace
    /\ outcome = "none"
    /\ pa = "none"
    /\ socket = "none"
    /\ parser_init

\* BridgeAI.__init__ with a missing API key reduced to a warning
BridgeAI_init_key_optional ==
    /\ pc = "main"
    /\ IF env.pyaudio /\ env.genai /\ env.gemini_client
       THEN pc' = "start"
       ELSE pc' = "exited"
    /\ pa' = IF env.pyaudio THEN "active" ELSE "none"
    /\ UNCHANGED <<running, memory, command, source, valid, connected,
                   sendResult, sendTrace, outcome, env, socket, parser_vars>>

\* BridgeAI.__init__: CommandMemory(), AudioRecorder() (sys.exit(1) without
\* pyaudio), WhisperTranscriber() (a missing binary is a printed warning),
\* IntentParser() (sys.exit(1) without google.generativeai, without
\* GEMINI_API_KEY, or when the client cannot be built), GodotClient()
BridgeAI_init ==
    /\ pc = "main"
    /\ IF env.pyaudio /\ env.genai /\ env.GEMINI_API_KEY /\ env.gemini_client
       THEN pc' = "start"
       ELSE pc' = "exited"
    /\ pa' = IF env.pyaudio THEN "active" ELSE "none"
    /\ UNCHANGED <<running, memory, command, source, valid, connected,
                   sendResult, sendTrace, outcome, env, socket, parser_vars>>

\* the locals of process_voice_command do not outlive the call
ClearLocals ==
    /\ command' = None
    /\ source' = "none"
    /\ valid' = "none"
    /\ sendResult' = "none"
    /\ sendTrace' = NoTrace

\* process_voice_command returns (False at an early return, True at the end)
Return(how) ==
    /\ pc' = "pause"
    /\ outcome' = how
    /\ ClearLocals

\* an exception other than KeyboardInterrupt leaves process_voice_command
Raise ==
    /\ pc' = "error"
    /\ outcome' = "exception"
    /\ ClearLocals

\* BridgeAI.run up to the loop: running = True, then one connect attempt
run_start ==
    /\ pc = "start"
    /\ running' = TRUE
    /\ \E connectOk \in BOOLEAN : connected' = connectOk
    /\ socket' = "open"
    /\ pc' = "record"
    /\ UNCHANGED <<memory, command, source, valid, sendResult, sendTrace, outcome>>
    /\ UNCHANGED <<env, pa, parser_vars>>

\* Step 1: recorder.record_until_silence
record_until_silence ==
    /\ pc = "record"
    /\ running
    /\ \/ /\ pc' = "transcribe"
          /\ outcome' = "none"
          /\ UNCHANGED <<command, source, valid, sendResult, sendTrace>>
       \/ Return("no_audio")
       \/ Raise
    /\ UNCHANGED <<running, memory, connected>>
    /\ UNCHANGED <<env, pa, socket, parser_vars>>

\* Step 2: transcriber.transcribe; without the whisper.cpp binary the
\* subprocess cannot start and transcribe returns None
transcribe ==
    /\ pc = "transcribe"
    /\ \/ /\ env.whisper_cpp
          /\ pc' = "parse"
          /\ UNCHANGED <<command, source, valid, sendResult, sendTrace, outcome>>
       \/ Return("no_text")
       \/ Raise
    /\ UNCHANGED <<running, memory, connected>>
    /\ UNCHANGED <<env, pa, socket, parser_vars>>

\* Step 3: parser.parse: the pattern matcher's command, else the LLM's
\* command, else no command
parse ==
    /\ pc = "parse"
    /\ \/ \E c \in PatternCommands :
            /\ command' = c
            /\ source' = "pattern"
            /\ pc' = "validate"
            /\ UNCHANGED <<valid, sendResult, sendTrace, outcome>>
       \/ \E c \in LLMCommands :
            /\ command' = c
            /\ source' = "llm"
            /\ pc' = "validate"
            /\ UNCHANGED <<valid, sendResult, sendTrace, outcome>>
       \/ Return("no_command")
    /\ UNCHANGED <<running, memory, connected>>
    /\ UNCHANGED <<env, pa, socket, parser_vars>>

\* validate with the early return on an invalid command lost
validate_no_reject ==
    /\ pc = "validate"
    /\ LET v == is_valid(command) IN
       CASE v \in {"True", "False"} ->
                           /\ valid' = v
                           /\ pc' = "send"
                           /\ UNCHANGED <<command, source, sendResult, sendTrace, outcome>>
         [] OTHER       -> Raise
    /\ UNCHANGED <<running, memory, connected>>
    /\ UNCHANGED <<env, pa, socket, parser_vars>>

\* Step 4: command.is_valid()
validate ==
    /\ pc = "validate"
    /\ LET v == is_valid(command) IN
       CASE v = "True"  -> /\ valid' = v
                           /\ pc' = "send"
                           /\ UNCHANGED <<command, source, sendResult, sendTrace, outcome>>
         [] v = "False" -> Return("invalid")
         [] OTHER       -> Raise
    /\ UNCHANGED <<running, memory, connected>>
    /\ UNCHANGED <<env, pa, socket, parser_vars>>

\* Step 5, the call: godot.send_command(command)
send_command ==
    /\ pc = "send"
    /\ \E connectOk \in BOOLEAN, snd \in SendOutcomes, rcv \in RecvOutcomes :
         LET r == send_command_result(connected, connectOk, snd, rcv) IN
         /\ sendResult' = r.result
         /\ connected' = r.connected
         /\ sendTrace' = r.trace
    /\ pc' = "sent"
    /\ UNCHANGED <<running, memory, command, source, valid, outcome>>
    /\ UNCHANGED <<env, pa, socket, parser_vars>>

\* process_send_result with memory.update moved ahead of the test of the result
process_send_result_update_first ==
    /\ pc = "sent"
    /\ memory' = update(memory, command)
    /\ CASE sendResult = "True"  -> Return("success")
         [] sendResult = "False" -> Return("send_failed")
         [] OTHER                -> Raise
    /\ UNCHANGED <<running, connected>>
    /\ UNCHANGED <<env, pa, socket, parser_vars>>

\* Step 5, the branch on the result: memory.update(command) on success
process_send_result ==
    /\ pc = "sent"
    /\ CASE sendResult = "True" ->
              /\ memory' = update(memory, command)
              /\ Return("success")
         [] sendResult = "False" ->
              /\ Return("send_failed")
              /\ UNCHANGED memory
         [] OTHER ->
              /\ Raise
              /\ UNCHANGED memory
    /\ UNCHANGED <<running, connected>>
    /\ UNCHANGED <<env, pa, socket, parser_vars>>

\* back to the loop head; outcome keeps how the cycle ended until the next
\* cycle has something to report
NextCycle ==
    /\ pc' = "record"
    /\ UNCHANGED <<running, memory, connected, command, source, valid,
                   sendResult, sendTrace, outcome>>
    /\ UNCHANGED <<env, pa, socket, parser_vars>>

\* run: time.sleep(0.5) after process_voice_command returned
pause ==
    /\ pc = "pause"
    /\ NextCycle

\* error_pause with the exception left to end the loop
error_pause_fatal ==
    /\ pc = "error"
    /\ pc' = "crashed"
    /\ running' = FALSE
    /\ UNCHANGED <<memory, connected, command, source, valid, sendResult,
                   sendTrace, outcome>>
    /\ UNCHANGED <<env, pa, socket, parser_vars>>

\* run: except Exception: print, time.sleep(1)
error_pause ==
    /\ pc = "error"
    /\ NextCycle

LoopStates == {"record", "transcribe", "parse", "validate", "send", "sent",
               "pause", "error"}

\* GodotClient.disconnect: close the socket if there is one, connected = False
disconnect_socket(sock) == IF sock = "none" THEN "none" ELSE "closed"

\* interrupt with godot.disconnect() left out of cleanup()
interrupt_no_disconnect ==
    /\ pc \in LoopStates
    /\ pc' = "stopped"
    /\ running' = FALSE
    /\ pa' = "terminated"
    /\ ClearLocals
    /\ UNCHANGED <<memory, outcome, connected, socket, env, parser_vars>>

\* KeyboardInterrupt inside the loop: re-raised by the inner handler, caught
\* by the outer one, then finally: cleanup(): running = False,
\* recorder.cleanup() (pa.terminate()), godot.disconnect(); run() returns
interrupt ==
    /\ pc \in LoopStates
    /\ pc' = "stopped"
    /\ running' = FALSE
    /\ pa' = "terminated"
    /\ socket' = disconnect_socket(socket)
    /\ connected' = FALSE
    /\ ClearLocals
    /\ UNCHANGED <<memory, outcome, env, parser_vars>>

\* KeyboardInterrupt before the loop's try statement is entered (inside
\* BridgeAI() or inside run()'s startup connect): nothing catches it, the
\* process ends with a traceback and cleanup() is not run
interrupt_before_loop ==
    /\ pc \in {"main", "start"}
    /\ pc' = "killed"
    /\ UNCHANGED <<running, memory, command, source, valid, connected,
                   sendResult, sendTrace, outcome, env, pa, socket, parser_vars>>

Next ==
    \/ BridgeAI_init
    \/ run_start
    \/ record_until_silence
    \/ transcribe
    \/ parse
    \/ validate
    \/ send_command
    \/ process_send_result
    \/ pause
    \/ error_pause
    \/ interrupt
    \/ interrupt_before_loop

Spec == Init /\ [][Next]_vars

\* The control thread is sequential, so it takes its next step whenever the
\* call it is in returns: the recording is bounded by MAX_RECORD_SECONDS,
\* whisper by its 30 s timeout, the socket by its 5 s timeout and the sleeps
\* by their length; the LLM call carries no timeout of its own and is taken
\* to return or raise.  The user's interrupt is under no obligation to come.
LoopStep ==
    \/ BridgeAI_init
    \/ run_start
    \/ record_until_silence
    \/ transcribe
    \/ parse
    \/ validate
    \/ send_command
    \/ process_send_result
    \/ pause
    \/ error_pause

FairSpec == Spec /\ WF_vars(LoopStep)

----------------------------------------------------------------------------
(* BridgeCommand.is_valid on its own *)

\* warp factors in tenths: -1, 0, 0.1, 5, 9.9, 10, and a JSON string
ValidatorWarp == {None, Num(-10), Num(0), Num(1), Num(50), Num(99), Num(100),
                  Str("five")}
ValidatorImpulse == {None, Num(-1), Num(0), Num(50), Num(100), Num(101), Str("half")}

ValidatorInputs ==
    {BridgeCommand(d, i, None, w, p, None) :
        d \in Department \cup {"science"}, i \in Intent \cup {"self_destruct"},
        w \in ValidatorWarp, p \in ValidatorImpulse}

Init_is_valid ==
    /\ pc = "is_valid"
    /\ command \in ValidatorInputs
    /\ valid = "none"
    /\ running = FALSE
    /\ memory = CommandMemory_init
    /\ source = "none"
    /\ connected = FALSE
    /\ sendResult = "none"
    /\ sendTrace = NoTrace
    /\ outcome = "none"
    /\ env \in {e \in Environments : \A k \in DOMAIN e : e[k]}
    /\ pa = "none"
    /\ socket = "none"
    /\ parser_init

call_is_valid ==
    /\ pc = "is_valid"
    /\ valid' = is_valid(command)
    /\ pc' = "is_valid_done"
    /\ UNCHANGED <<running, memory, command, source, connected, sendResult,
                   sendTrace, outcome>>
    /\ UNCHANGED <<env, pa, socket, parser_vars>>

Spec_is_valid == Init_is_valid /\ [][call_is_valid]_vars

----------------------------------------------------------------------------
(* IntentParser.parse on its own *)

\* One call of parse inside a cycle, on a transcript and an LLM outcome drawn
\* from the sets below, followed by the rest of the cycle up to the send.

\* what the transcriber hands to parse: phrasings of the matcher in the
\* spellings whisper gives them, and sentences left to the LLM
Utterances ==
    {"full impulse", "Three quarter impulse", "two thirds impulse",
     "Half impulse.", "one third impulse", "quarter impulse", "thrusters only",
     "ahead full", "warp 5", "Warp 9.9", "warp 10", "increase to warp 7",
     "Engage", "all stop", "Shields up", "red alert", "status report",
     "orbit mars", "scan the moon", "evasive maneuvers", "hail starbase",
     "fire phasers", "dock", "go home", "set course for sol",
     "Set a course for Deep Space Nine, warp 6",
     "beam me up", "Number one, you have the bridge", "tea earl grey hot"}

\* response.text of the LLM: objects with every kind of confidence, target
\* and intent value, JSON that is no object, JSON inside prose, and no JSON
ReplyTexts ==
    {"{\"department\": \"helm\", \"intent\": \"stop\", \"confidence\": 0.95}",
     "{\"intent\": \"stop\"}",
     "{\"intent\": \"stop\", \"confidence\": 0}",
     "{\"intent\": \"stop\", \"confidence\": 0.0}",
     "{\"intent\": \"stop\", \"confidence\": 0.1}",
     "{\"intent\": \"stop\", \"confidence\": 0.29}",
     "{\"intent\": \"stop\", \"confidence\": 0.3}",
     "{\"intent\": \"stop\", \"confidence\": 0.30}",
     "{\"intent\": \"stop\", \"confidence\": 0.31}",
     "{\"intent\": \"stop\", \"confidence\": 1}",
     "{\"intent\": \"stop\", \"confidence\": -0.5}",
     "{\"intent\": \"stop\", \"confidence\": \"0.9\"}",
     "{\"intent\": \"stop\", \"confidence\": \"0.1\"}",
     "{\"intent\": \"stop\", \"confidence\": \"high\"}",
     "{\"intent\": \"stop\", \"confidence\": \"\"}",
     "{\"intent\": \"stop\", \"confidence\": null}",
     "{\"intent\": \"stop\", \"confidence\": []}",
     "{\"intent\": \"stop\", \"confidence\": [0.1]}",
     "{\"intent\": \"stop\", \"confidence\": true}",
     "{\"intent\": \"stop\", \"confidence\": false}",
     "{\"confidence\": 0.9}",
     "{\"department\": \"tactical\", \"confidence\": 0.9}",
     "{\"warp_factor\": 3, \"confidence\": 0.9}",
     "{\"warp_factor\": 10, \"confidence\": 0.9}",
     "{\"intent\": null, \"confidence\": 0.9}",
     "{\"intent\": [\"stop\"], \"confidence\": 0.9}",
     "{\"intent\": \"set_course\", \"target\": \"sol\", \"warp_factor\": 5, \"confidence\": 0.95}",
     "{\"intent\": \"navigate\", \"target\": \"SOL\", \"warp_factor\": 9.9, \"confidence\": 0.29}",
     "{\"intent\": \"navigate\", \"target\": \"the sun\", \"warp_factor\": 10, \"confidence\": 0.95}",
     "{\"intent\": \"orbit\", \"target\": \"Deep Space Nine\", \"confidence\": 0.8}",
     "{\"intent\": \"orbit\", \"target\": \"alpha CENTAURI\", \"confidence\": 0.8}",
     "{\"intent\": \"orbit\", \"target\": \"\", \"confidence\": 0.8}",
     "{\"intent\": \"orbit\", \"target\": null, \"confidence\": 0.8}",
     "{\"intent\": \"orbit\", \"target\": 5, \"confidence\": 0.8}",
     "{\"intent\": \"orbit\", \"target\": [\"Mars\"], \"confidence\": 0.8}",
     "{\"intent\": \"orbit\", \"target\": true, \"confidence\": 0.8}",
     "{\"department\": null, \"intent\": \"self_destruct\", \"confidence\": 0.8}",
     "{\"department\": \"helm\", \"intent\": \"warp\", \"warp_factor\": \"five\", \"confidence\": 0.8}",
     "{\"department\": \"helm\", \"intent\": \"impulse\", \"impulse_percent\": 50, \"confidence\": 0.8}",
     "{\"department\": \"helm\", \"intent\": \"evasive_action\", \"maneuver\": \"delta\", \"confidence\": 0.8}",
     "Sure! {\"intent\": \"stop\", \"confidence\": 0.9} Hope this helps.",
     "  {\"intent\": \"halt\"}\n",
     "{\"intent\": \"stop\"} {\"intent\": \"warp\"}",
     "{\"intent\": \"stop\", \"confidence\": 0.9",
     "I cannot help with that.",
     "} {", "{}", "[]", "[1]", "5", "\"stop\"", "null", "true"}

\* generate_content raises (network, quota, blocked reply) or answers
LLMResponses ==
    {[kind |-> "raise"]} \cup {[kind |-> "text", text |-> t] : t \in ReplyTexts}

\* the memory earlier cycles can have left: nothing yet; a course to Mars at
\* warp 5 under way; the same with the shields raised since
Memories ==
    LET under_way == update(CommandMemory_init,
                            BridgeCommand("helm", "navigate", Str("Mars"), Num(50),
                                          None, None))
    IN  {CommandMemory_init, under_way,
         update(under_way, Plain("tactical", "raise_shields"))}

Init_parse ==
    /\ pc = "parse"
    /\ text \in Utterances
    /\ env = [pyaudio |-> TRUE, whisper_cpp |-> TRUE, genai |-> TRUE,
              GEMINI_API_KEY |-> TRUE, gemini_client |-> TRUE]
    /\ running = TRUE
    /\ memory \in Memories
    /\ command = None
    /\ source = "none"
    /\ valid = "none"
    /\ connected \in BOOLEAN
    /\ sendResult = "none"
    /\ sendTrace = NoTrace
    /\ outcome = "none"
    /\ pa = "active"
    /\ socket = "open"
    /\ response = None
    /\ json_data = None
    /\ llm_calls = 0
    /\ parse_exit = "none"
    /\ context = None
    /\ canonical = None

\* parse with the quick match computed but not returned: the LLM is asked
\* about every transcript
try_pattern_match_then_llm ==
    /\ pc = "parse"
    /\ pc' = "parse_llm"
    /\ UNCHANGED <<command, source, parse_exit>>
    /\ UNCHANGED <<running, memory, valid, connected, sendResult, sendTrace,
                   outcome, env, pa, socket, text, response, json_data,
                   llm_calls, context, canonical>>

\* parse, lines 939-942: quick_match = self._try_pattern_match(text);
\* if quick_match: return quick_match
try_pattern_match ==
    /\ pc = "parse"
    /\ LET quick_match == _try_pattern_match(text) IN
       IF quick_match # None
       THEN /\ command' = quick_match
            /\ source' = "pattern"
            /\ parse_exit' = "quick_match"
            /\ pc' = "parse_return"
       ELSE /\ pc' = "parse_llm"
            /\ UNCHANGED <<command, source, parse_exit>>
    /\ UNCHANGED <<running, memory, valid, connected, sendResult, sendTrace,
                   outcome, env, pa, socket, text, response, json_data,
                   llm_calls, context, canonical>>

\* what parse returns for an outcome of the LLM call
llm_result(r) ==
    LET x == parse_response(r) IN
    /\ context' = get_context_string(memory)
    /\ response' = r
    /\ llm_calls' = llm_calls + 1
    /\ json_data' = x.json_data
    /\ parse_exit' = x.exit
    /\ command' = x.command
    /\ source' = IF x.command = None THEN "none" ELSE "llm"

\* call_llm with no except clause around the call
call_llm_uncaught ==
    /\ pc = "parse_llm"
    /\ \E r \in LLMResponses :
         IF r.kind = "raise"
         THEN /\ Raise
              /\ context' = get_context_string(memory)
              /\ response' = r
              /\ llm_calls' = llm_calls + 1
              /\ UNCHANGED <<json_data, parse_exit>>
         ELSE /\ llm_result(r)
              /\ pc' = "parse_return"
              /\ UNCHANGED <<valid, sendResult, sendTrace, outcome>>
    /\ UNCHANGED <<running, memory, connected, env, pa, socket, text, canonical>>

\* call_llm with a context rendering that consumes the memory it reads
call_llm_clears_memory ==
    /\ pc = "parse_llm"
    /\ \E r \in LLMResponses : llm_result(r)
    /\ pc' = "parse_return"
    /\ memory' = CommandMemory_init
    /\ UNCHANGED <<running, valid, connected, sendResult, sendTrace,
                   outcome, env, pa, socket, text, canonical>>

\* parse, lines 944-1080: the memory context and the prompt, then the try
\* statement around generate_content and the handling of its reply; except
\* Exception returns None
call_llm ==
    /\ pc = "parse_llm"
    /\ \E r \in LLMResponses : llm_result(r)
    /\ pc' = "parse_return"
    /\ UNCHANGED <<running, memory, valid, connected, sendResult, sendTrace,
                   outcome, env, pa, socket, text, canonical>>

\* process_voice_command, Step 3 after parse returned:
\* if not command: return False
parse_return ==
    /\ pc = "parse_return"
    /\ IF command = None
       THEN Return("no_command")
       ELSE /\ pc' = "validate"
            /\ UNCHANGED <<command, source, valid, sendResult, sendTrace, outcome>>
    /\ UNCHANGED <<running, memory, connected, env, pa, socket, parser_vars>>

\* the cycle around the call, up to the send and back to the loop head
Next_parse ==
    \/ try_pattern_match
    \/ call_llm
    \/ parse_return
    \/ validate
    \/ pause
    \/ error_pause

Spec_parse == Init_parse /\ [][Next_parse]_vars

\* the whole cycle around the call: the parsed command is validated, sent,
\* and remembered on success (process_voice_command, steps 3 to 5)
Next_cycle ==
    \/ Next_parse
    \/ send_command
    \/ process_send_result

Spec_cycle == Init_parse /\ [][Next_cycle]_vars

----------------------------------------------------------------------------
(* IntentParser._extract_json on its own *)

\* LLM replies: a JSON text, well formed or not, with or without prose and
\* stray braces around it
JsonCores ==
    {"{\"intent\": \"stop\"}", "{\"a\": {\"b\": 1}}",
     "{\"intent\": \"warp\", \"warp_factor\": 5}", "{}", "[1, 2]", "0.5",
     "null", "{\"intent\": }", "{\"intent\": \"stop\"", "no json",
     "}{", "{\"a\": 1} {\"b\": 2}"}
ReplyPrefixes == {"", "Sure: ", "{ ", "a } ", " \n"}
ReplySuffixes == {"", " done.", " }", " {"}
Replies ==
    {p \o c \o s : p \in ReplyPrefixes, c \in JsonCores, s \in ReplySuffixes}

Init_extract_json ==
    /\ pc = "extract"
    /\ text \in Replies
    /\ env = [pyaudio |-> TRUE, whisper_cpp |-> TRUE, genai |-> TRUE,
              GEMINI_API_KEY |-> TRUE, gemini_client |-> TRUE]
    /\ running = TRUE
    /\ memory = CommandMemory_init
    /\ command = None
    /\ source = "none"
    /\ valid = "none"
    /\ connected = FALSE
    /\ sendResult = "none"
    /\ sendTrace = NoTrace
    /\ outcome = "none"
    /\ pa = "active"
    /\ socket = "open"
    /\ response = None
    /\ json_data = None
    /\ llm_calls = 0
    /\ parse_exit = "none"
    /\ context = None
    /\ canonical = None

\* json_data = self._extract_json(response_text)
call_extract_json ==
    /\ pc = "extract"
    /\ json_data' = _extract_json(text)
    /\ pc' = "extract_done"
    /\ UNCHANGED <<running, memory, command, source, valid, connected,
                   sendResult, sendTrace, outcome, env, pa, socket, text,
                   response, llm_calls, parse_exit, context, canonical>>

Spec_extract_json == Init_extract_json /\ [][call_extract_json]_vars

----------------------------------------------------------------------------
(* Destination names on both parse paths *)

RECURSIVE upper(_)
\* str.upper
upper(s) == IF s = "" THEN "" ELSE UpperChar(Head(s)) \o upper(Tail(s))

\* the alias keys of the two tables and the names they stand for
AliasKeys == DOMAIN valid_targets \cup DOMAIN target_map
CanonicalNames ==
    {valid_targets[k] : k \in DOMAIN valid_targets} \cup
    {target_map[k] : k \in DOMAIN target_map}

\* destination strings as a speaker or the LLM may spell them: every alias
\* in small letters, in capitals and capitalised, the canonical names, and
\* names of neither table
Spellings ==
    UNION {{k, upper(k), capitalize(k)} : k \in AliasKeys}
    \cup CanonicalNames
    \cup {"vulcan", "Vulcan", "VULCAN", "Alpha Centauri", "alpha centauri",
          "sOl", "The Moon", "Deep space nine", "starbase 12", "Qo'noS"}

Init_target ==
    /\ pc = "target"
    /\ text \in Spellings
    /\ env = [pyaudio |-> TRUE, whisper_cpp |-> TRUE, genai |-> TRUE,
              GEMINI_API_KEY |-> TRUE, gemini_client |-> TRUE]
    /\ running = TRUE
    /\ memory = CommandMemory_init
    /\ command = None
    /\ source = "none"
    /\ valid = "none"
    /\ connected = FALSE
    /\ sendResult = "none"
    /\ sendTrace = NoTrace
    /\ outcome = "none"
    /\ pa = "active"
    /\ socket = "open"
    /\ response = None
    /\ json_data = None
    /\ llm_calls = 0
    /\ parse_exit = "none"
    /\ context = None
    /\ canonical = None

\* the name each path gives for a destination string: the LLM path from the
\* reply's target, the pattern path from the lower-cased transcript
Canonical(name) ==
    [of |-> name, llm |-> llm_target(name), pattern |-> pattern_target(lower(name))]

target_unchanged ==
    UNCHANGED <<running, memory, command, source, valid, connected, sendResult,
                sendTrace, outcome, env, pa, socket, text, response, json_data,
                llm_calls, parse_exit, context>>

\* the destination string is normalised
normalise_target ==
    /\ pc = "target"
    /\ canonical' = Canonical(text)
    /\ pc' = "target_done"
    /\ target_unchanged

\* the name the LLM path gave is normalised once more
normalise_again ==
    /\ pc = "target_done"
    /\ canonical' = Canonical(canonical.llm)
    /\ pc' = "target_again"
    /\ target_unchanged

Next_target == normalise_target \/ normalise_again

Spec_target == Init_target /\ [][Next_target]_vars

----------------------------------------------------------------------------
(* IntentParser._try_pattern_match on its own *)

\* the catchphrases of the matcher's catalogue
Catchphrases ==
    {"punch it", "hit it", "engage", "make it so", "energize", "maximum warp",
     "max warp", "all stop", "raise shields", "shields up", "orbit earth"}

\* a phrase as whisper may write it: small letters, capitals or capitalised,
\* with or without a closing period
Written(p) == {s \o e : s \in {p, upper(p), capitalize(p)}, e \in {"", "."}}

\* the openings of the navigation patterns and what may follow the
\* destination
CourseOpenings ==
    {"set course for ", "set a course to ", "plot a course to ",
     "lay in a course for ", "course to ", "take us to ", "head to ", "go to "}
WarpTails == {"", " warp 7", " warp factor 9.5"}

CourseUtterances ==
    {o \o x \o w : o \in CourseOpenings, x \in DOMAIN valid_targets, w \in WarpTails}

\* utterances around the bare "warp N" rule and the dock and land branches
WarpUtterances ==
    {"warp 5", "warp factor 3", "Warp 9.9.", "go to warp 6", "take us to warp 2",
     "head to mars warp 5", "mars warp 5", "warp 5 to earth", "set warp 3",
     "console warp 4", "warp 8 now", "increase to warp 7", "ahead warp factor 4",
     "slow to warp 2", "set speed to warp 6", "lay on warp 1", "plot warp 9"}
DockUtterances ==
    {"dock", "Dock.", "docking", "land", "Land.", "landing", "dock with spacedock",
     "dock with the starbase", "dock ds9", "dock at earth", "land on mars",
     "land on the moon", "land luna", "land on vulcan", "land on"}

Phrases ==
    UNION {Written(p) : p \in Catchphrases}
    \cup CourseUtterances
    \cup DOMAIN valid_targets
    \cup WarpUtterances
    \cup DockUtterances

Init_pattern_match ==
    /\ pc = "match"
    /\ text \in Phrases
    /\ env = [pyaudio |-> TRUE, whisper_cpp |-> TRUE, genai |-> TRUE,
              GEMINI_API_KEY |-> TRUE, gemini_client |-> TRUE]
    /\ running = TRUE
    /\ memory = CommandMemory_init
    /\ command = None
    /\ source = "none"
    /\ valid = "none"
    /\ connected = FALSE
    /\ sendResult = "none"
    /\ sendTrace = NoTrace
    /\ outcome = "none"
    /\ pa = "active"
    /\ socket = "open"
    /\ response = None
    /\ json_data = None
    /\ llm_calls = 0
    /\ parse_exit = "none"
    /\ context = None
    /\ canonical = None

\* quick_match = self._try_pattern_match(text)
call_try_pattern_match ==
    /\ pc = "match"
    /\ command' = _try_pattern_match(text)
    /\ pc' = "match_done"
    /\ UNCHANGED <<running, memory, source, valid, connected, sendResult,
                   sendTrace, outcome, env, pa, socket, text, response,
                   json_data, llm_calls, parse_exit, context,
                   canonical>>

Spec_pattern_match == Init_pattern_match /\ [][call_try_pattern_match]_vars

----------------------------------------------------------------------------
(* Properties *)

FailureOutcomes == {"no_audio", "no_text", "no_command", "invalid",
                    "send_failed", "exception"}

\* the step of process_voice_command that applies memory.update(command)
UpdateStep == pc = "sent" /\ sendResult = "True" /\ pc' = "pause"

\* C1: conversational memory changes only in the step that follows a
\* send_command that returned True for a command that passed is_valid, and
\* then by exactly update(memory, command); every step that ends a cycle in
\* failure, and every other step, leaves all five fields as they were.
C1_MemoryOnlyAfterValidatedTransport ==
    [][/\ memory' # memory =>
            /\ pc = "sent"
            /\ sendResult = "True"
            /\ valid = "True"
            /\ is_valid(command) = "True"
            /\ outcome' = "success"
            /\ memory' = update(memory, command)
       /\ (outcome' \in FailureOutcomes /\ pc # pc') => memory' = memory]_vars

\* a cycle failed at transport after an earlier cycle had updated memory
C1_Witness ==
    /\ outcome = "send_failed"
    /\ pc = "pause"
    /\ memory # CommandMemory_init

\* C2: send_command is called, and the command line written to the socket,
\* only for a command that is_valid accepted, from either parse path.
C2_InvalidNeverSent ==
    /\ pc \in {"send", "sent"} => (command # None /\ is_valid(command) = "True")
    /\ sendTrace # NoTrace => (command # None /\ is_valid(command) = "True")

\* an invalid command from the LLM fallback is waiting at the validator
C2_Witness ==
    /\ pc = "validate"
    /\ source = "llm"
    /\ is_valid(command) = "False"

\* C3: is_valid returns True exactly for a command whose department is helm,
\* tactical, engineering or ops, whose intent is in the intent enumeration,
\* whose warp_factor is absent or a number strictly between 0 and 10, and
\* whose impulse_percent is absent or a number in 0..100; warp factors 0, 10
\* and -1 and impulse 101 and -1 are never accepted, and 9.9, 0 % and 100 %
\* are accepted when the rest of the command is in range.
C3_InRange(c) ==
    /\ c.department \in {"helm", "tactical", "engineering", "ops"}
    /\ c.intent \in Intent
    /\ \/ c.warp_factor = None
       \/ /\ c.warp_factor.kind = "num"
          /\ c.warp_factor.val > 0
          /\ c.warp_factor.val < 100
    /\ \/ c.impulse_percent = None
       \/ /\ c.impulse_percent.kind = "num"
          /\ c.impulse_percent.val >= 0
          /\ c.impulse_percent.val =< 100

C4_AtWarpRule ==
    [][UpdateStep =>
        memory'.at_warp =
            IF command.intent \in {"warp", "navigate"} /\ command.warp_factor # None
            THEN TRUE
            ELSE IF command.intent \in {"stop", "impulse", "disengage", "orbit"}
            THEN FALSE
            ELSE memory.at_warp]_vars

\* an orbit command is about to be applied while the ship is at warp
C4_Witness ==
    /\ pc = "sent"
    /\ sendResult = "True"
    /\ command.intent = "orbit"
    /\ memory.at_warp

\* C5 as stated: last_destination takes c.target whenever a target is present.
C5_Original ==
    [][UpdateStep =>
        /\ memory'.last_destination =
              IF command.target # None THEN command.target
              ELSE memory.last_destination
        /\ memory'.last_warp_factor =
              IF command.warp_factor # None /\ command.warp_factor # Num(0)
              THEN command.warp_factor ELSE memory.last_warp_factor
        /\ memory'.last_impulse =
              IF command.impulse_percent # None THEN command.impulse_percent
              ELSE memory.last_impulse]_vars

\* C5, amended: after update(c), last_destination is c.target if the target
\* is present and not empty, last_warp_factor is c.warp_factor if present and
\* non-zero, last_impulse is c.impulse_percent if present (0 included); each
\* is otherwise unchanged.  A navigate with target T and warp factor W leaves
\* last_destination = T, last_warp_factor = W, at_warp = TRUE.
C5_FieldsRule ==
    [][UpdateStep =>
        /\ memory'.last_destination =
              IF command.target # None /\ command.target # Str("")
              THEN command.target ELSE memory.last_destination
        /\ memory'.last_warp_factor =
              IF command.warp_factor # None /\ command.warp_factor # Num(0)
              THEN command.warp_factor ELSE memory.last_warp_factor
        /\ memory'.last_impulse =
              IF command.impulse_percent # None THEN command.impulse_percent
              ELSE memory.last_impulse
        /\ (/\ command.intent = "navigate"
            /\ command.target \in {Str(t) : t \in TargetNames}
            /\ command.warp_factor \notin {None, Num(0)}) =>
              /\ memory'.last_destination = command.target
              /\ memory'.last_warp_factor = command.warp_factor
              /\ memory'.at_warp]_vars

\* an impulse level of 0 is about to overwrite a remembered level of 100
C5_Witness ==
    /\ pc = "sent"
    /\ sendResult = "True"
    /\ command.impulse_percent = Num(0)
    /\ command.target = Str("")
    /\ memory.last_impulse = Num(100)
    /\ memory.last_destination = Str("Earth")

\* C6: shields_raised changes only in the update of a raise_shields command
\* (to TRUE) or of a lower_shields command (to FALSE); every other step and
\* every other command leaves it as it was.
C6_ShieldsRule ==
    [][/\ UpdateStep =>
            memory'.shields_raised =
                IF command.intent = "raise_shields" THEN TRUE
                ELSE IF command.intent = "lower_shields" THEN FALSE
                ELSE memory.shields_raised
       /\ memory'.shields_raised # memory.shields_raised =>
            /\ UpdateStep
            /\ command.intent \in {"raise_shields", "lower_shields"}]_vars

\* a stop command is about to be applied while the shields are raised
C6_Witness ==
    /\ pc = "sent"
    /\ sendResult = "True"
    /\ command.intent = "stop"
    /\ memory.shields_raised

\* C7: applying the same valid command twice gives the same memory as
\* applying it once: whenever a sent command has been applied to memory,
\* applying it again to the result changes none of the five fields.
C7_UpdateIdempotent ==
    [][UpdateStep =>
        /\ is_valid(command) = "True"
        /\ update(memory', command) = memory'
        /\ update(update(memory, command), command) = update(memory, command)]_vars

\* a navigate command whose effect is already in memory is about to be
\* applied again
C7_Witness ==
    /\ pc = "sent"
    /\ sendResult = "True"
    /\ command.intent = "navigate"
    /\ memory.last_destination = command.target
    /\ memory.last_warp_factor = command.warp_factor
    /\ memory.at_warp

\* C8 as stated: a send_command that failed on a socket error or on a timeout
\* (while sending or while waiting for the acknowledgment) returns with the
\* client marked disconnected, so that the next call reconnects.
C8_Original ==
    (/\ pc = "sent"
     /\ sendResult = "False"
     /\ \/ sendTrace.send \in {"timeout", "error"}
        \/ sendTrace.recv \in {"timeout", "error"})
    => ~connected

\* C9 as stated: send_command returns True exactly when the client is or
\* becomes connected, the write completes and the receive returns without a
\* timeout or socket error, whatever the reply; otherwise it returns False.
C9_Original ==
    pc = "sent" =>
        /\ (sendResult = "True") <=>
              /\ sendTrace.connect # "failed"
              /\ sendTrace.send = "ok"
              /\ sendTrace.recv \notin {"none", "timeout", "error"}
        /\ sendResult \in {"True", "False"}

\* C10: in every failure state of a cycle the loop is still running, and
\* from it the loop comes back to its head, with the failure on record,
\* unless the user interrupts.
C10_FailuresNonFatal ==
    /\ [](pc \in {"pause", "error"} => running)
    /\ \A o \in FailureOutcomes :
         (pc \in {"pause", "error"} /\ outcome = o)
            ~> ((pc = "record" /\ running /\ outcome = o) \/ pc = "stopped")

\* the loop is back at its head after a cycle that ended in an exception
C10_Witness ==
    /\ pc = "record"
    /\ running
    /\ outcome = "exception"

\* the positions at which the process has not reached, or has left before
\* reaching, the command loop
NotStarted == {"main", "exited", "killed"}

\* C11 as stated: with no transcription binary, no LLM credentials or no LLM
\* client the process never gets past initialisation.
C11_Original ==
    (~env.whisper_cpp \/ ~env.GEMINI_API_KEY \/ ~env.gemini_client) =>
        (pc \in NotStarted /\ ~running)

\* C11, amended: with no LLM credentials or no LLM client the process ends
\* during initialisation and never enters the command loop; a missing
\* transcription binary is only warned about, and the loop then runs without
\* ever getting a transcript.
C11_FatalStartup ==
    /\ (~env.GEMINI_API_KEY \/ ~env.gemini_client) => (pc \in NotStarted /\ ~running)
    /\ [][(pc = "main" /\ pc' # "killed"
            /\ (~env.GEMINI_API_KEY \/ ~env.gemini_client)) => pc' = "exited"]_vars
    /\ ~env.whisper_cpp => pc \notin {"parse", "validate", "send", "sent"}

\* initialisation ended the process for want of the API key alone
C11_Witness ==
    /\ pc = "exited"
    /\ ~env.GEMINI_API_KEY
    /\ env.pyaudio /\ env.whisper_cpp /\ env.genai /\ env.gemini_client

\* C12: at every point of the running loop a user interrupt can be taken; the
\* step that leaves the loop is that interrupt and no other, and when run()
\* has returned the loop is off, the audio device is released
\* (recorder.cleanup), the socket is closed and the client is marked
\* disconnected (godot.disconnect).
C12_InterruptCleansUp ==
    /\ [](pc \in LoopStates => (running /\ ENABLED interrupt))
    /\ [][(pc \in LoopStates /\ pc' \notin LoopStates) =>
            /\ pc' = "stopped"
            /\ ~running'
            /\ pa' = "terminated"
            /\ socket' = "closed"
            /\ ~connected']_vars
    /\ [](pc = "stopped" =>
            (~running /\ pa = "terminated" /\ socket = "closed" /\ ~connected))

\* the interrupt came in the middle of a cycle, on a connected client, after
\* an earlier cycle had succeeded
C12_Witness ==
    /\ pc = "stopped"
    /\ outcome = "none"
    /\ memory.at_warp
    /\ socket = "closed"


\* C13: parse asks the LLM only after the pattern matcher found nothing.  A
\* generate_content call is made only from the fallback branch, on a
\* transcript the matcher returns None for, and only when none was made
\* before; a transcript the matcher has a command for comes back from parse
\* as that command, and no LLM call is made for it in the rest of the cycle
\* either, whether or not the command passes validation.
C13_LLMOnlyAfterNoMatch ==
    /\ [][llm_calls' # llm_calls =>
            /\ pc = "parse_llm"
            /\ _try_pattern_match(text) = None
            /\ llm_calls = 0 /\ llm_calls' = 1]_vars
    /\ [](llm_calls <= 1)
    /\ [](_try_pattern_match(text) # None => llm_calls = 0)
    /\ []((pc = "parse_return" /\ _try_pattern_match(text) # None) =>
            (command = _try_pattern_match(text) /\ source = "pattern"))

\* "warp 10" is matched, returned without an LLM call, and then rejected by
\* validation
C13_Witness ==
    /\ pc = "pause"
    /\ outcome = "invalid"
    /\ text = "warp 10"
    /\ parse_exit = "quick_match"
    /\ llm_calls = 0

\* the confidence field of the reply parse is handling
ReplyConfidence == get(json_data.items, "confidence", None)

\* parse has returned from the LLM path with a reply that held an object
ReturnedFromReply ==
    /\ pc = "parse_return"
    /\ llm_calls = 1
    /\ response.kind = "text"
    /\ json_data.kind = "dict"

\* C14: on the LLM path a reply whose confidence is a number in [0, 0.3),
\* 0 and 0.29 included, is rejected: parse returns no command.
C14_Original ==
    (/\ ReturnedFromReply
     /\ ReplyConfidence.kind = "number"
     /\ float(ReplyConfidence.lexeme, 2).val \in 0..(MIN_CONFIDENCE - 1))
    => command = None

\* the confidence the gate is specified to compare: the reply's number (or
\* numeric string), 0.5 for a missing field or one that is no number
EffectiveConfidence ==
    LET c == ReplyConfidence
        n == float(IF c.kind = "number" THEN c.lexeme ELSE c.val, 2)
    IN  IF c.kind \in {"number", "str"} /\ n.kind = "num" THEN n.val
        ELSE DefaultConfidence

\* C15: on the LLM path a reply whose effective confidence is at least the
\* threshold is let through the gate: parse does not leave by the
\* low-confidence return, and returns a command unless a later step raises.
C15_GatePasses ==
    (/\ ReturnedFromReply
     /\ Truthy(json_data)
     /\ EffectiveConfidence >= MIN_CONFIDENCE)
    => /\ parse_exit \in {"command", "exception"}
       /\ parse_exit = "command" <=> command # None

\* confidence 0.30 at threshold 0.3
C15_Witness ==
    /\ ReturnedFromReply
    /\ ReplyConfidence = Number("0.30")
    /\ parse_exit = "command"
    /\ command = Plain("helm", "stop")


\* the ways the LLM fallback can fail: the call raised; the reply holds no
\* JSON; the reply's JSON is no object, or its target is no string
CallRaised == response.kind = "raise"
NotParseable == response.kind = "text" /\ json_data = None
ReplyTarget == get(json_data.items, "target", None)
BrokenShape ==
    /\ response.kind = "text"
    /\ Truthy(json_data)
    /\ \/ json_data.kind # "dict"
       \/ Truthy(ReplyTarget) /\ ReplyTarget.kind # "str"

\* C16: no failure of the LLM fallback leaves parse as an exception.  When
\* the call raised, the reply held no JSON, or the reply's shape broke the
\* normalisation, parse returns None; the step out of the fallback is always
\* the return of parse; and on None the cycle ends with "no command" and the
\* loop, still running, goes on to the next recording.
C16_NoFailurePropagates ==
    /\ []((pc = "parse_return" /\ llm_calls = 1
           /\ (CallRaised \/ NotParseable \/ BrokenShape)) => command = None)
    /\ [][pc = "parse_llm" => pc' = "parse_return"]_vars
    /\ [][(pc = "parse_return" /\ command = None) =>
            (pc' = "pause" /\ outcome' = "no_command" /\ running')]_vars
    /\ [][(pc = "pause" /\ outcome = "no_command") =>
            (pc' = "record" /\ running')]_vars

\* generate_content raised and the loop is back at its head
C16_Witness ==
    /\ pc = "record"
    /\ running
    /\ outcome = "no_command"
    /\ response.kind = "raise"
    /\ parse_exit = "exception"

\* the percentages documented for the fixed impulse phrasings
ImpulsePhrasings ==
    ("full impulse" :> 100) @@ ("three quarter impulse" :> 75) @@
    ("two thirds impulse" :> 66) @@ ("half impulse" :> 50) @@
    ("one third impulse" :> 33) @@ ("quarter impulse" :> 25) @@
    ("thrusters only" :> 10)

\* C20: each fixed impulse phrasing comes back from the pattern matcher as
\* the impulse command of its documented percentage, with no target and no
\* warp factor.
C20_Original ==
    (pc = "parse_return" /\ text_lower(text) \in DOMAIN ImpulsePhrasings)
    => command = ImpulseCommand(ImpulsePhrasings[text_lower(text)])


\* the two texts _extract_json is specified to try
WholeReply == json_loads(text)
BracedPart == json_loads(SubSeq(text, find(text, "{"), rfind(text, "}")))
HasBraces == Contains(text, "{") /\ Contains(text, "}")

\* C17: _extract_json returns the value of the whole reply when the whole
\* reply is JSON; otherwise the value of the text from the first "{" to the
\* last "}" when that is JSON; and None when there is no "{" or no "}" or
\* when neither text is JSON.
C17_ExtractJson ==
    pc = "extract_done" =>
        /\ WholeReply.ok => json_data = WholeReply.val
        /\ (~WholeReply.ok /\ HasBraces /\ BracedPart.ok) =>
               json_data = BracedPart.val
        /\ (~WholeReply.ok /\ ~(HasBraces /\ BracedPart.ok)) => json_data = None

\* a nested object between prose
C17_Witness ==
    /\ pc = "extract_done"
    /\ text = "Sure: {\"a\": {\"b\": 1}} done."
    /\ ~WholeReply.ok
    /\ json_data.kind = "dict"
    /\ DOMAIN json_data.items = {"a"}


\* C18: both parse paths give the same name for every destination string:
\* the LLM path's target_map lookup and the pattern path's valid_targets
\* lookup agree on the aliases of either table, in any letter case, and on
\* names of neither table.
C18_SameAliasing ==
    pc \in {"target_done", "target_again"} => canonical.llm = canonical.pattern

\* "starbase 1" is a key of valid_targets only: the LLM path reaches the
\* same name through capitalize
C18_Witness ==
    /\ pc = "target_done"
    /\ text = "STARBASE 1"
    /\ lower(text) \notin DOMAIN target_map
    /\ canonical.llm = "Starbase 1"
    /\ canonical.pattern = "Starbase 1"

\* C19: destination aliasing is case-insensitive and idempotent: spellings
\* that differ only in letter case get the same name, every alias gets the
\* canonical name of its destination ("SOL", "sol" and "the sun" get "Sun"),
\* a canonical name is returned unchanged, and normalising a result again
\* changes nothing.
C19_AliasingIdempotent ==
    /\ pc = "target_done" =>
         /\ canonical.llm = llm_target(lower(text))
         /\ canonical.llm = llm_target(upper(text))
         /\ canonical.pattern = pattern_target(lower(upper(text)))
         /\ lower(text) \in DOMAIN valid_targets =>
                canonical.llm = valid_targets[lower(text)]
         /\ lower(text) \in DOMAIN target_map =>
                canonical.llm = target_map[lower(text)]
         /\ text \in {"SOL", "sol", "the sun"} => canonical.llm = "Sun"
         /\ text \in CanonicalNames =>
                (canonical.llm = text /\ canonical.pattern = text)
    /\ pc = "target_again" =>
         (canonical.llm = canonical.of /\ canonical.pattern = canonical.of)

\* "DS9" became "Deep Space Nine", which normalises to itself
C19_Witness ==
    /\ pc = "target_again"
    /\ text = "DS9"
    /\ canonical.of = "Deep Space Nine"
    /\ canonical.llm = "Deep Space Nine"


\* the documented command of each catchphrase
CatchphraseCommand ==
    ("punch it" :> WarpCommand(Num(90))) @@ ("hit it" :> WarpCommand(Num(90))) @@
    ("engage" :> WarpCommand(Num(50))) @@ ("make it so" :> WarpCommand(Num(50))) @@
    ("energize" :> WarpCommand(Num(50))) @@
    ("maximum warp" :> WarpCommand(Num(99))) @@
    ("all stop" :> Plain("helm", "stop")) @@
    ("raise shields" :> Plain("tactical", "raise_shields")) @@
    ("orbit earth" :> Targeted("helm", "orbit", "Earth"))

Navigate(x, w) ==
    BridgeCommand("helm", "navigate", Str(valid_targets[x]), Num(w), None, None)

\* C22: a course utterance ("set course for X", "plot a course to X",
\* "course to X", "take us to X", "head to X", "go to X") with an alias X of
\* the target table comes back as helm navigate to the canonical name of X,
\* at the warp factor named after it, or at warp 5 when none is named.
C22_Original ==
    pc = "match_done" =>
        \A o \in CourseOpenings, x \in DOMAIN valid_targets :
            /\ text = o \o x => command = Navigate(x, 50)
            /\ text = o \o x \o " warp 7" => command = Navigate(x, 70)
            /\ text = o \o x \o " warp factor 9.5" => command = Navigate(x, 95)

\* C23: an utterance that is an alias of the target table and nothing else
\* comes back as helm navigate to the alias's canonical name at warp 5.
C23_Original ==
    (pc = "match_done" /\ text \in DOMAIN valid_targets) =>
        command = Navigate(text, 50)

\* C24: an utterance that names a destination of the alias table or holds a
\* navigation word, and is none of the speed-change phrasings or
\* catchphrases, never comes back as a warp command.
C24_BareWarpGuarded ==
    (/\ pc = "match_done"
     /\ \/ ContainsAny(text_lower(text), DOMAIN valid_targets)
        \/ ContainsAny(text_lower(text), nav_words)
     /\ match_warp_change(text_lower(text)) = None
     /\ match_catchphrase(text_lower(text)) = None)
    => (command = None \/ command.intent # "warp")

\* "head to mars warp 5" matches warp N, and is not taken for a warp command
C24_Witness ==
    /\ pc = "match_done"
    /\ text = "head to mars warp 5"
    /\ search(warp_match_re, text_lower(text)).ok
    /\ command = None

\* C25: the bare utterances "dock" and "land" come back as the dock and the
\* land command with target "Starbase 1"; a captured target is looked up in
\* the alias table.
C25_Original ==
    pc = "match_done" =>
        /\ text_lower(text) = "dock" => command = Targeted("helm", "dock", "Starbase 1")
        /\ text_lower(text) = "land" => command = Targeted("helm", "land", "Starbase 1")
        /\ text = "dock with spacedock" => command = Targeted("helm", "dock", "Starbase 1")
        /\ text = "land on the moon" => command = Targeted("helm", "land", "Moon")


\* C26: parse only reads the memory: the pattern matcher, the rendering of
\* the context and the LLM fallback leave the five memory fields as they
\* were, whether parse returns a command or None.
C26_ParseReadsMemoryOnly ==
    /\ [][(pc \in {"parse", "parse_llm"}) => UNCHANGED memory]_vars
    /\ [](pc = "parse_return" => memory \in Memories)
    /\ []((pc = "parse_return" /\ llm_calls = 1) =>
            context = get_context_string(memory))

\* the LLM path ran on a memory that holds a destination, a warp factor and
\* raised shields, and returned no command
C26_Witness ==
    /\ pc = "parse_return"
    /\ llm_calls = 1
    /\ command = None
    /\ memory.shields_raised /\ memory.at_warp
    /\ memory.last_destination = Str("Mars")
    /\ Len(context) = 4


\* C27: no retry.  A send_command call attempts a connect exactly when the
\* client is disconnected on entry, and only once; after a failed attempt it
\* returns False with nothing written.  A cycle calls send_command once, for
\* the command its own parse produced; a command whose send did not succeed
\* is dropped with the cycle and the next send needs a new parse.
C27_NoRetry ==
    /\ [][pc = "send" =>
            /\ pc' \in {"sent", "stopped"}
            /\ pc' = "sent" =>
                 /\ (sendTrace'.connect # "none") <=> ~connected
                 /\ sendTrace'.connect = "failed" =>
                      (sendResult' = "False" /\ sendTrace'.send = "none"
                       /\ sendTrace'.recv = "none")
                 /\ command' = command]_vars
    /\ [][pc' = "send" => (pc = "validate" /\ command' = command)]_vars
    /\ [][(pc = "sent" /\ sendResult # "True") =>
            (pc' \in {"pause", "error", "stopped"} /\ command' = None
             /\ UNCHANGED memory)]_vars
    /\ [][(command' # None /\ command' # command) => pc = "parse"]_vars

\* the one connect attempt failed, nothing was written, and the command is
\* gone with its cycle
C27_Witness ==
    /\ pc = "pause"
    /\ outcome = "send_failed"
    /\ command = None
    /\ ~connected
    /\ memory = CommandMemory_init


\* C28: in every state reached by voice-command cycles from the empty memory,
\* at_warp is true only while a warp factor is remembered, and a remembered
\* destination or warp factor never becomes absent again.
C28_MemoryInvariants ==
    /\ [](memory.at_warp => memory.last_warp_factor # None)
    /\ [][memory.last_destination # None => memory'.last_destination # None]_vars
    /\ [][memory.last_warp_factor # None => memory'.last_warp_factor # None]_vars

\* A stop command has been sent after a voyage at warp: at_warp is cleared
\* and the destination and warp factor are still remembered.
C28_Witness ==
    /\ pc = "pause" /\ outcome = "success"
    /\ ~memory.at_warp
    /\ memory.last_destination # None
    /\ memory.last_warp_factor # None


\* the reply was an object without the given field
ReplyLacks(key) ==
    /\ llm_calls = 1
    /\ response.kind = "text"
    /\ json_data.kind = "dict"
    /\ key \notin DOMAIN json_data.items

\* the numeric fields of the command are absent or inside the validated ranges
NumbersInRange ==
    /\ \/ command.warp_factor = None
       \/ /\ command.warp_factor.kind = "num"
          /\ 0 < command.warp_factor.val /\ command.warp_factor.val < WarpLimit
    /\ \/ command.impulse_percent = None
       \/ /\ command.impulse_percent.kind = "num"
          /\ 0 <= command.impulse_percent.val
          /\ command.impulse_percent.val <= ImpulseLimit

====
